---- MODULE Spec2Model ----
(***************************************************************************)
(* RS485 sniffer / RFLink decoder (src/Logger.py).                         *)
(*                                                                         *)
(* The model has three kinds of process:                                   *)
(*   - the reader threads started by RS485Sniffer.start (reader_thread),   *)
(*     one program counter per thread, one step per block of the loop      *)
(*     between two reads of shared state;                                  *)
(*   - the GUI (Tk main) thread: start, stop (in its four steps) and the   *)
(*     setters;                                                            *)
(*   - the environment: bytes arriving at the serial port, the clock.      *)
(*                                                                         *)
(* Bytes and characters are their integer codes.  A byte the reader has    *)
(* read is a record [v, n, g]: v the value, n its position in the order    *)
(* of reception (1, 2, ...), g the time between the read that delivered it *)
(* and the read before (0 for all but the first byte of a read).  Only v   *)
(* is program state; n and g are history used to state the claims.         *)
(*                                                                         *)
(* Time is in milliseconds.  The program only ever uses differences of     *)
(* perf_counter() values, so the model keeps the differences (time since   *)
(* last_rx_time, per reader), saturating at MaxElapsed; where time passes  *)
(* timeout_ms is at most MaxElapsed, so that the saturation hides nothing. *)
(*                                                                         *)
(* A function checked on its own (parse) is called on arg and returns in   *)
(* result.                                                                 *)
(***************************************************************************)
EXTENDS Integers, Sequences, FiniteSets, TLC

\* ------------------------------------------------------------------ bounds
MaxStream == 6      \* bytes that arrive at the port in one run
MaxElapsed == 2     \* the elapsed-time counters saturate here
MaxThreads == 2     \* reader threads ever started in one run
TimeoutStream == 3  \* bytes that arrive in a run in which time passes
StopStream == 3     \* bytes that arrive in a run with stop()
FramingStream == 3  \* bytes that arrive in a run of one reader from start to end
GuiStream == 2      \* bytes that arrive in a run with the setters

\* ------------------------------------------------------- program constants
LF == 10
CR == 13
TAB == 9
SP == 32
SEMI == 59
EQ == 61
MinTimeout == 1
MaxTimeout == 10000
DefaultTimeout == 50

MODE_RAW == "raw"
MODE_DELIMITER == "delimiter"
MODE_TIMEOUT == "timeout"
MODE_BOTH == "both"
MODE_RFLINK == "rflink"
Modes == {MODE_RAW, MODE_DELIMITER, MODE_TIMEOUT, MODE_BOTH, MODE_RFLINK}

Threads == 1..MaxThreads

\* ------------------------------------------------------------------ helpers
Min(a, b) == IF a < b THEN a ELSE b
Max(a, b) == IF a > b THEN a ELSE b
SetMin(S) == CHOOSE x \in S : \A y \in S : x <= y

\* the values of a sequence of received bytes
Val(s) == [i \in 1..Len(s) |-> s[i].v]
\* the reception positions of a sequence of received bytes
Pos(s) == [i \in 1..Len(s) |-> s[i].n]

\* s[a:b] of Python for 0 <= a
Slice(s, a, b) == SubSeq(s, a + 1, Min(b, Len(s)))
\* a remainder that keeps the last byte of what was cut off
From_Overlap(s, a) == SubSeq(s, IF a >= 1 THEN a ELSE 1, Len(s))

\* s[a:] of Python
From(s, a) == SubSeq(s, a + 1, Len(s))

\* bytes.find(needle): 0-based index of the first occurrence, -1 if none
\* (the empty needle is found at 0)
PyFind(hay, needle) ==
    LET hits == {i \in 0..(Len(hay) - Len(needle)) :
                    SubSeq(hay, i + 1, i + Len(needle)) = needle}
    IN  IF hits = {} THEN -1 ELSE SetMin(hits)

\* needle in hay
PyIn(needle, hay) == PyFind(hay, needle) >= 0

VARIABLES
    running,          \* self.running
    ser,              \* self.ser: "none" (None), "open", "closed" (closed port object)
    thread,           \* self.thread: 0 (None) or the id of the thread last started
    frame_mode,       \* self.frame_mode
    delimiter,        \* self.delimiter (sequence of byte values)
    timeout_ms,       \* self.timeout_ms
    show_hex,         \* self.show_hex
    show_ascii,       \* self.show_ascii
    stats,            \* self.stats (set = FALSE: None), cumulative totals
    rx_queue,         \* self.rx_queue: the records put, in put order
    rflink_msg_queue, \* self.rflink_msg_queue
    rflink_devices,   \* self.rflink_devices: unique_id -> device
    plugin_enabled,   \* plugin.enabled of each registered plugin
    switch_history,   \* SwitchPlugin.switch_history: key -> commands seen
    pc,               \* per reader thread: position in reader_thread
    buffer,           \* per reader thread: local buffer
    data,             \* per reader thread: local data (the last read)
    idx0,             \* per reader thread: result of buffer.index(self.delimiter)
    since,            \* per reader thread: perf_counter() - last_rx_time, saturating
    gpc,              \* GUI thread: position in stop()
    join_result,      \* history: how the last join in stop() ended
    inbuf,            \* bytes waiting in the port's input buffer (ser.in_waiting)
    arrived,          \* number of bytes that have arrived at the port
    received,         \* history: the bytes read so far, in read order
    quiet,            \* history: time since the last non-empty read, saturating
    proc,             \* the reader's locals in process_rflink_message (at: position)
    cleared,          \* history: how many messages had been passed when the registry
                      \* was last cleared (-1: never), and whether one was under way
    bus,              \* self.stats, the load part: settings, byte_history, current
                      \* and peak values (followed where update is called on its own)
    clock,            \* time.perf_counter(), in seconds
    upd,              \* the reader's locals in BusStatistics.update (at: position)
    display,          \* the statistics labels of the GUI, as last set
    zeroed,           \* history: how many updates had begun when the statistics
                      \* were last reset (-1: never)
    shutter,          \* ShutterRemotePlugin.protocol, the ShutterRemoteProtocol object
    config_file,      \* ~/.shutter_remote_config.json: absent, JSON with the three
                      \* mappings, or cut short by a write that failed
    arg,              \* the argument of a function called on its own
    result            \* what that call returned (done = FALSE: not called yet)

vars == <<running, ser, thread, frame_mode, delimiter, timeout_ms, show_hex,
          show_ascii, stats, rx_queue, rflink_msg_queue, rflink_devices,
          plugin_enabled, switch_history,
          pc, buffer, data, idx0, since, gpc, join_result, inbuf, arrived,
          received, quiet, proc, cleared, bus, clock, upd, display, zeroed,
          shutter, config_file, arg, result>>

cfgVars == <<frame_mode, delimiter, timeout_ms, show_hex, show_ascii>>
rflinkVars == <<rflink_msg_queue, rflink_devices, plugin_enabled, switch_history>>
envVars == <<inbuf, arrived>>
guiVars == <<running, ser, thread, gpc, join_result>>
readerVars == <<pc, buffer, data, idx0, since>>
histVars == <<received, quiet>>
procVars == <<proc, cleared>>
busVars == <<bus, clock, upd, display, zeroed>>
shutterVars == <<shutter, config_file>>
callVars == <<arg, result, procVars, busVars, shutterVars, shutterVars>>

\* ------------------------------------------------------------ format_frame
\* the ASCII column of format_frame for one byte
AsciiOf(b) ==
    IF 32 <= b /\ b < 127 THEN <<b>>
    ELSE IF b = CR THEN <<92, 114>>
    ELSE IF b = LF THEN <<92, 110>>
    ELSE IF b = TAB THEN <<92, 116>>
    ELSE <<46>>

RECURSIVE AsciiView(_)
AsciiView(bytes) ==
    IF bytes = <<>> THEN <<>> ELSE AsciiOf(Head(bytes)) \o AsciiView(Tail(bytes))

\* format_frame(data, incomplete): the record put on rx_queue.  bytes is the
\* argument (with its history tags); len, hex, ascii and incomplete are the
\* parts of the formatted text.
format_frame(bytes, incomplete) ==
    [kind |-> "frame",
     bytes |-> bytes,
     len |-> Len(bytes),
     hex |-> IF show_hex THEN Val(bytes) ELSE <<>>,
     ascii |-> IF show_ascii THEN AsciiView(Val(bytes)) ELSE <<>>,
     incomplete |-> incomplete]

\* the "[ERROR] ..." text put on rx_queue when the serial source fails
ErrorRecord ==
    [kind |-> "error", bytes |-> <<>>, len |-> 0, hex |-> <<>>, ascii |-> <<>>,
     incomplete |-> FALSE]

\* self.stats.total_frames += k (guarded by "if self.stats")
CountFrames(k) ==
    IF stats.set THEN [stats EXCEPT !.total_frames = @ + k] ELSE stats

\* self.stats.update(byte_count, 0): the cumulative part
StatsUpdate(k) ==
    IF stats.set THEN [stats EXCEPT !.total_bytes = @ + k] ELSE stats

\* ------------------------------------------------------------ text helpers
SetMax(S) == CHOOSE x \in S : \A y \in S : x >= y
Range(s) == {s[i] : i \in 1..Len(s)}

\* str.strip(): the white space of str.isspace() below U+1680
StrSpace == {9, 10, 11, 12, 13, 28, 29, 30, 31, 32, 133, 160}
\* the white space int() skips around a literal
IntSpace == {9, 10, 11, 12, 13, 32, 133, 160}

\* s with the leading and trailing characters of W removed
StripSet(s, W) ==
    LET keep == {i \in 1..Len(s) : s[i] \notin W}
    IN  IF keep = {} THEN <<>> ELSE SubSeq(s, SetMin(keep), SetMax(keep))

PyStrip(s) == StripSet(s, StrSpace)

\* s.split(c): the parts between the occurrences of c
RECURSIVE PySplit(_, _)
PySplit(s, c) ==
    LET hits == {i \in 1..Len(s) : s[i] = c}
    IN  IF hits = {} THEN <<s>>
        ELSE <<SubSeq(s, 1, SetMin(hits) - 1)>>
                 \o PySplit(SubSeq(s, SetMin(hits) + 1, Len(s)), c)

\* bytes.decode("utf-8", errors="replace") on ASCII bytes and on bytes that
\* start no valid sequence (U+FFFD); multi-byte sequences are not modelled
Utf8Decode(bytes) ==
    [i \in 1..Len(bytes) |-> IF bytes[i] < 128 THEN bytes[i] ELSE 65533]

\* the value of a digit character, 99 if it is none
DigitVal(c) ==
    IF 48 <= c /\ c <= 57 THEN c - 48
    ELSE IF 97 <= c /\ c <= 122 THEN c - 87
    ELSE IF 65 <= c /\ c <= 90 THEN c - 55
    ELSE 99

RECURSIVE DigitsValue(_, _, _)
DigitsValue(digits, base, acc) ==
    IF digits = <<>> THEN acc
    ELSE DigitsValue(Tail(digits), base, acc * base + DigitVal(Head(digits)))

\* int(s, base) for base 10 and 16: [ok, val]; ok = FALSE is ValueError.
\* White space around, one sign, for base 16 an optional 0x/0X, then digits
\* with single underscores between them (one may follow the prefix).
PyInt(s, base) ==
    LET s1 == StripSet(s, IntSpace)
        signed == s1 # <<>> /\ s1[1] \in {43, 45}
        s2 == IF signed THEN Tail(s1) ELSE s1
        prefixed == base = 16 /\ Len(s2) >= 2 /\ s2[1] = 48 /\ s2[2] \in {120, 88}
        s3 == IF prefixed THEN From(s2, 2) ELSE s2
        s4 == IF prefixed /\ s3 # <<>> /\ s3[1] = 95 THEN Tail(s3) ELSE s3
        okChars == \A i \in 1..Len(s4) : s4[i] = 95 \/ DigitVal(s4[i]) < base
        okUnder == /\ s4 # <<>>
                   /\ s4[1] # 95
                   /\ s4[Len(s4)] # 95
                   /\ \A i \in 1..(Len(s4) - 1) : ~(s4[i] = 95 /\ s4[i + 1] = 95)
        mag == DigitsValue(SelectSeq(s4, LAMBDA c : c # 95), base, 0)
    IN  IF okChars /\ okUnder
        THEN [ok |-> TRUE, val |-> IF signed /\ s1[1] = 45 THEN 0 - mag ELSE mag]
        ELSE [ok |-> FALSE, val |-> 0]

RECURSIVE NatToStr(_)
NatToStr(n) ==
    IF n < 10 THEN <<48 + n>> ELSE NatToStr(n \div 10) \o <<48 + (n % 10)>>

\* str(i) of an int
IntToStr(i) == IF i < 0 THEN <<45>> \o NatToStr(0 - i) ELSE NatToStr(i)

\* ------------------------------------------------------------- dict values
\* a decoded field value: an int, a str, or (added by a plugin) a dict, of
\* which only the key set is kept
IntV(i) == [t |-> "int", i |-> i, s |-> <<>>, d |-> {}]
StrV(s) == [t |-> "str", i |-> 0, s |-> s, d |-> {}]
DictV(keys) == [t |-> "dict", i |-> 0, s |-> <<>>, d |-> keys]

\* str(value)
ValueStr(v) == IF v.t = "int" THEN IntToStr(v.i) ELSE v.s

\* a Python dict is the sequence of its items in insertion order
DictHas(d, k) == \E i \in 1..Len(d) : d[i].k = k
DictGet(d, k) == d[CHOOSE i \in 1..Len(d) : d[i].k = k].v
DictSet(d, k, v) ==
    IF DictHas(d, k)
    THEN [i \in 1..Len(d) |-> IF d[i].k = k THEN [k |-> k, v |-> v] ELSE d[i]]
    ELSE Append(d, [k |-> k, v |-> v])
DictKeys(d) == {d[i].k : i \in 1..Len(d)}

\* ------------------------------------------------------------ RFLinkParser
K_ID == <<73, 68>>                      \* "ID"
K_SWITCH == <<83, 87, 73, 84, 67, 72>>  \* "SWITCH"
K_CMD == <<67, 77, 68>>                 \* "CMD"
K_TEMP == <<84, 69, 77, 80>>            \* "TEMP"
K_HUM == <<72, 85, 77>>                 \* "HUM"
K_WINDIR == <<87, 73, 78, 68, 73, 82>>  \* "WINDIR"
K_WINSP == <<87, 73, 78, 83, 80>>       \* "WINSP"
K_RAIN == <<82, 65, 73, 78>>            \* "RAIN"
P_OK == <<79, 75>>                      \* "OK"
P_PONG == <<80, 79, 78, 71>>            \* "PONG"

\* self.field_parsers: the keys decoded by _parse_hex
HexKeys ==
    {<<73, 68>>,    \* ID
     <<84, 69, 77, 80>>,    \* TEMP
     <<66, 65, 82, 79>>,    \* BARO
     <<82, 65, 73, 78>>,    \* RAIN
     <<82, 65, 73, 78, 82, 65, 84, 69>>,    \* RAINRATE
     <<87, 73, 78, 83, 80>>,    \* WINSP
     <<65, 87, 73, 78, 83, 80>>,    \* AWINSP
     <<87, 73, 78, 71, 83>>,    \* WINGS
     <<87, 73, 78, 67, 72, 76>>,    \* WINCHL
     <<87, 73, 78, 84, 77, 80>>,    \* WINTMP
     <<85, 86>>,    \* UV
     <<76, 85, 88>>,    \* LUX
     <<75, 87, 65, 84, 84>>,    \* KWATT
     <<87, 65, 84, 84>>,    \* WATT
     <<82, 71, 66, 87>>}    \* RGBW

\* self.field_parsers: the keys decoded by _parse_int (every other key is
\* decoded by _parse_str, listed in the table or not)
IntKeys ==
    {<<72, 85, 77>>,    \* HUM
     <<87, 73, 78, 68, 73, 82>>,    \* WINDIR
     <<83, 69, 84, 95, 76, 69, 86, 69, 76>>,    \* SET_LEVEL
     <<67, 72, 73, 77, 69>>,    \* CHIME
     <<67, 79, 50>>,    \* CO2
     <<83, 79, 85, 78, 68>>,    \* SOUND
     <<67, 85, 82, 82, 69, 78, 84>>,    \* CURRENT
     <<67, 85, 82, 82, 69, 78, 84, 50>>,    \* CURRENT2
     <<67, 85, 82, 82, 69, 78, 84, 51>>,    \* CURRENT3
     <<68, 73, 83, 84>>,    \* DIST
     <<77, 69, 84, 69, 82>>,    \* METER
     <<86, 79, 76, 84>>,    \* VOLT
     <<72, 83, 84, 65, 84, 85, 83>>,    \* HSTATUS
     <<66, 70, 79, 82, 69, 67, 65, 83, 84>>}    \* BFORECAST

_parse_hex(value) == IF PyInt(value, 16).ok THEN PyInt(value, 16).val ELSE 0
_parse_int(value) == IF PyInt(value, 10).ok THEN PyInt(value, 10).val ELSE 0
_parse_str(value) == value

\* a decode that treats every key outside the hex table as an int key
DecodeField_AllInt(key, value) ==
    IF key \in HexKeys THEN IntV(_parse_hex(value)) ELSE IntV(_parse_int(value))

\* self.field_parsers.get(key, self._parse_str)(value)
DecodeField(key, value) ==
    IF key \in HexKeys THEN IntV(_parse_hex(value))
    ELSE IF key \in IntKeys THEN IntV(_parse_int(value))
    ELSE StrV(_parse_str(value))

\* the loop over parts[3:]: a part with "=" is split at the first "="
RECURSIVE ParseFields(_, _)
ParseFields(parts, fields) ==
    IF parts = <<>> THEN fields
    ELSE LET part == Head(parts)
             eqs == {i \in 1..Len(part) : part[i] = EQ}
         IN  IF eqs = {} THEN ParseFields(Tail(parts), fields)
             ELSE ParseFields(Tail(parts),
                      DictSet(fields,
                              SubSeq(part, 1, SetMin(eqs) - 1),
                              DecodeField(SubSeq(part, 1, SetMin(eqs) - 1),
                                          SubSeq(part, SetMin(eqs) + 1, Len(part)))))

\* parse returned None
NoMsg ==
    [ok |-> FALSE, raw |-> <<>>, node |-> <<>>, sequence |-> <<>>,
     protocol |-> <<>>, fields |-> <<>>]

\* RFLinkParser.parse(line)
parse(line) ==
    LET stripped == PyStrip(line)
        parts == PySplit(stripped, SEMI)
    IN  IF stripped = <<>> THEN NoMsg
        ELSE IF Len(parts) < 3 THEN NoMsg
        ELSE [ok |-> TRUE, raw |-> stripped, node |-> parts[1],
              sequence |-> parts[2], protocol |-> parts[3],
              fields |-> IF parts[3] \in {P_OK, P_PONG} THEN <<>>
                         ELSE ParseFields(From(parts, 3), <<>>)]

\* ------------------------------------------------------------ format_value
\* the sign bit of a temperature and the mask of its magnitude
SignBit == 32768
\* x & 0x8000 and x & 0x7FFF of Python (two's complement of any length)
HasSignBit(x) == (x \div SignBit) % 2 = 1
Magnitude(x) == x % SignBit

\* a temperature shown without looking at the sign bit
TempSigned_Unsigned(raw_value) == raw_value

\* "if raw_value & 0x8000: raw_value = -(raw_value & 0x7FFF)"
TempSigned(raw_value) ==
    IF HasSignBit(raw_value) THEN 0 - Magnitude(raw_value) ELSE raw_value

\* f"{n / 10.0:.1f}" for an int n (below 2^53 in size)
FormatTenths(n) ==
    IF n < 0
    THEN <<45>> \o NatToStr((0 - n) \div 10) \o <<46, 48 + ((0 - n) % 10)>>
    ELSE NatToStr(n \div 10) \o <<46, 48 + (n % 10)>>

\* f"{n:X}" for an int n
RECURSIVE NatToHex(_)
NatToHex(n) ==
    LET d == n % 16
        c == IF d < 10 THEN 48 + d ELSE 55 + d
    IN  IF n < 16 THEN <<c>> ELSE NatToHex(n \div 16) \o <<c>>

IntToHex(i) == IF i < 0 THEN <<45>> \o NatToHex(0 - i) ELSE NatToHex(i)

\* the names of the 16 wind directions
Directions ==
    <<
      <<78>>,             \* N
      <<78, 78, 69>>,     \* NNE
      <<78, 69>>,         \* NE
      <<69, 78, 69>>,     \* ENE
      <<69>>,             \* E
      <<69, 83, 69>>,     \* ESE
      <<83, 69>>,         \* SE
      <<83, 83, 69>>,     \* SSE
      <<83>>,             \* S
      <<83, 83, 87>>,     \* SSW
      <<83, 87>>,         \* SW
      <<87, 83, 87>>,     \* WSW
      <<87>>,             \* W
      <<87, 78, 87>>,     \* WNW
      <<78, 87>>,         \* NW
      <<78, 78, 87>>>>    \* NNW

\* f"{n * 22.5}" for n in 0..15
FormatDegrees(n) ==
    NatToStr((n * 45) \div 2) \o <<46, IF (n * 45) % 2 = 1 THEN 53 ELSE 48>>

\* RFLinkParser.format_value(field_type, raw_value), raw_value a decoded
\* value ([t, i, s, d]) of the type parse gives the key
format_value(field_type, raw_value) ==
    IF field_type = K_TEMP /\ raw_value.t = "int"
    THEN FormatTenths(TempSigned(raw_value.i)) \o <<176, 67>>
    ELSE IF field_type = K_HUM
    THEN ValueStr(raw_value) \o <<37>>
    ELSE IF field_type \in {K_RAIN, <<82, 65, 73, 78, 82, 65, 84, 69>>}
    THEN FormatTenths(raw_value.i) \o <<109, 109>>
    ELSE IF field_type \in {K_WINSP, <<65, 87, 73, 78, 83, 80>>}
    THEN FormatTenths(raw_value.i) \o <<107, 109, 47, 104>>
    ELSE IF field_type = K_WINDIR /\ 0 <= raw_value.i /\ raw_value.i < 16
    THEN Directions[raw_value.i + 1] \o <<32, 40>>
             \o FormatDegrees(raw_value.i) \o <<176, 41>>
    ELSE IF field_type = K_ID
    THEN <<48, 120>> \o IntToHex(raw_value.i)
    ELSE ValueStr(raw_value)

\* --------------------------------------------------- process_rflink_message
\* RFLinkDevice.unique_id for protocol, device_id and switch
unique_id(protocol, device_id, switch) ==
    IF switch # <<>> THEN protocol \o <<58>> \o device_id \o <<58>> \o switch
    ELSE protocol \o <<58>> \o device_id

\* str(msg.fields.get(key, ""))
FieldStr(msg, key) ==
    IF DictHas(msg.fields, key) THEN ValueStr(DictGet(msg.fields, key)) ELSE <<>>

\* a MergeValues that also stores ID and SWITCH
RECURSIVE MergeValues_KeepIds(_, _)
MergeValues_KeepIds(values, fields) ==
    IF fields = <<>> THEN values
    ELSE MergeValues_KeepIds(DictSet(values, Head(fields).k, Head(fields).v),
                             Tail(fields))

\* the loop "for field, value in msg.fields.items()" that fills device.values
RECURSIVE MergeValues(_, _)
MergeValues(values, fields) ==
    IF fields = <<>> THEN values
    ELSE MergeValues(IF Head(fields).k \in {K_ID, K_SWITCH} THEN values
                     ELSE DictSet(values, Head(fields).k, Head(fields).v),
                     Tail(fields))

\* the device-tracking part of process_rflink_message: the new rflink_devices
UpdateDevices(devices, msg) ==
    IF ~DictHas(msg.fields, K_ID) THEN devices
    ELSE LET key == unique_id(msg.protocol, FieldStr(msg, K_ID), FieldStr(msg, K_SWITCH))
             known == DictHas(devices, key)
             device == [protocol |-> msg.protocol,
                        device_id |-> FieldStr(msg, K_ID),
                        switch |-> FieldStr(msg, K_SWITCH),
                        last_cmd |-> FieldStr(msg, K_CMD),
                        message_count |-> IF known
                                          THEN DictGet(devices, key).message_count + 1
                                          ELSE 1,
                        values |-> MergeValues(IF known
                                               THEN DictGet(devices, key).values
                                               ELSE <<>>,
                                               msg.fields)]
         IN  DictSet(devices, key, device)

\* the registered plugins, in registration order (_init_default_plugins)
PluginOrder == <<"Weather Sensors", "Switches & Remotes", "Debug Output">>

\* "_plugin_" + name
PluginKey(name) ==
    <<95, 112, 108, 117, 103, 105, 110, 95>> \o
    (CASE name = "Weather Sensors" ->
              <<87, 101, 97, 116, 104, 101, 114, 32, 83, 101, 110, 115, 111, 114, 115>>
       [] name = "Switches & Remotes" ->
              <<83, 119, 105, 116, 99, 104, 101, 115, 32, 38, 32,
                82, 101, 109, 111, 116, 101, 115>>
       [] name = "Debug Output" ->
              <<68, 101, 98, 117, 103, 32, 79, 117, 116, 112, 117, 116>>)

\* the cap of a SwitchPlugin history
HistoryCap == 100

\* protocols DebugPlugin handles: DEBUG, RFDEBUG, RFUDEBUG, QRFDEBUG
DebugProtocols ==
    {<<68, 69, 66, 85, 71>>, <<82, 70, 68, 69, 66, 85, 71>>,
     <<82, 70, 85, 68, 69, 66, 85, 71>>, <<81, 82, 70, 68, 69, 66, 85, 71>>}

\* WeatherPlugin.process_message: the keys of the result
WeatherResult(msg) ==
    (IF DictHas(msg.fields, K_TEMP) /\ DictGet(msg.fields, K_TEMP).t = "int"
     THEN {"temperature_c", "temperature_f"} ELSE {})
    \cup (IF DictHas(msg.fields, K_WINDIR)
             /\ 0 <= DictGet(msg.fields, K_WINDIR).i
             /\ DictGet(msg.fields, K_WINDIR).i < 16
          THEN {"wind_direction_text", "wind_direction_deg"} ELSE {})
    \cup (IF DictHas(msg.fields, K_WINSP)
          THEN {"wind_speed_kmh", "wind_speed_ms"} ELSE {})
    \cup (IF DictHas(msg.fields, K_RAIN) THEN {"rain_mm"} ELSE {})

\* SwitchPlugin.process_message: the key of the history it appends to
SwitchKey(msg) ==
    msg.protocol \o <<58>>
        \o (IF DictHas(msg.fields, K_ID) THEN FieldStr(msg, K_ID)
            ELSE <<117, 110, 107, 110, 111, 119, 110>>)
        \o <<58>> \o FieldStr(msg, K_SWITCH)

\* SwitchPlugin.process_message: the new switch_history
SwitchHistory(history, msg) ==
    IF ~DictHas(msg.fields, K_CMD) THEN history
    ELSE LET old == IF DictHas(history, SwitchKey(msg))
                    THEN DictGet(history, SwitchKey(msg)) ELSE <<>>
             new == Append(old, FieldStr(msg, K_CMD))
         IN  DictSet(history, SwitchKey(msg),
                     IF Len(new) > HistoryCap
                     THEN SubSeq(new, Len(new) - HistoryCap + 1, Len(new))
                     ELSE new)

\* plugin.process_message(msg): the keys of the result dict ({}: None).  The
\* values the plugins derive (conversions, the last commands, the pulse
\* statistics DebugPlugin reads from msg.raw) are not kept: the pipeline only
\* tests the result for truth and stores it under the plugin's key.
PluginResult(name, msg) ==
    CASE name = "Weather Sensors" -> WeatherResult(msg)
      [] name = "Switches & Remotes" ->
             IF DictHas(msg.fields, K_CMD)
             THEN {"history_count", "last_commands"} ELSE {}
      [] name = "Debug Output" ->
             IF msg.protocol \in DebugProtocols THEN {"is_debug"} ELSE {}

\* a plugin loop with one try around the whole loop: the first plugin that
\* raises ends it
RECURSIVE PluginLoop_StopOnRaise(_, _, _, _)
PluginLoop_StopOnRaise(names, msg, raising, log) ==
    IF names = <<>> THEN [msg |-> msg, log |-> log]
    ELSE IF ~plugin_enabled[Head(names)]
    THEN PluginLoop_StopOnRaise(Tail(names), msg, raising, log)
    ELSE IF Head(names) \in raising
    THEN [msg |-> msg, log |-> Append(log, Head(names))]
    ELSE PluginLoop_StopOnRaise(Tail(names),
             IF PluginResult(Head(names), msg) # {}
             THEN [msg EXCEPT !.fields =
                      DictSet(@, PluginKey(Head(names)),
                              DictV(PluginResult(Head(names), msg)))]
             ELSE msg,
             raising, Append(log, Head(names)))

\* the loop over self.plugins.  raising: the plugins whose process_message
\* raises on this message (caught by "except Exception", nothing merged);
\* log: the plugins invoked so far, in the order of the calls.  Gives msg
\* after the loop and the log.
RECURSIVE PluginLoop(_, _, _, _)
PluginLoop(names, msg, raising, log) ==
    IF names = <<>> THEN [msg |-> msg, log |-> log]
    ELSE IF ~plugin_enabled[Head(names)]
    THEN PluginLoop(Tail(names), msg, raising, log)
    ELSE PluginLoop(Tail(names),
             IF Head(names) \notin raising /\ PluginResult(Head(names), msg) # {}
             THEN [msg EXCEPT !.fields =
                      DictSet(@, PluginKey(Head(names)),
                              DictV(PluginResult(Head(names), msg)))]
             ELSE msg,
             raising, Append(log, Head(names)))

\* the loop over self.plugins when no plugin raises: msg after the enabled
\* plugins have run
RunPlugins(names, msg) == PluginLoop(names, msg, {}, <<>>).msg

\* the "◀ [protocol] fields" line of format_rflink_message, as a record:
\* source is the line cut from the buffer, msg the message displayed
RflinkRecord(source, msg) ==
    [kind |-> "rflink", bytes |-> source, msg |-> msg]

\* the "RAW: line" text
RawRecord(source, line_str) ==
    [kind |-> "raw", bytes |-> source, text |-> line_str]

\* ----------------------------------------------------------- set_delimiter
\* str.upper() on ASCII
Upper(s) == [i \in 1..Len(s) |-> IF 97 <= s[i] /\ s[i] <= 122 THEN s[i] - 32 ELSE s[i]]

IsHexDigit(c) == DigitVal(c) < 16

\* bytes.fromhex(s): [ok, bytes]; ok = FALSE is ValueError.  Pairs of hex
\* digits; ASCII white space between the pairs is skipped.
RECURSIVE FromHex(_)
FromHex(s) ==
    IF s = <<>> THEN [ok |-> TRUE, bytes |-> <<>>]
    ELSE IF s[1] \in {9, 10, 11, 12, 13, 32} THEN FromHex(Tail(s))
    ELSE IF Len(s) >= 2 /\ IsHexDigit(s[1]) /\ IsHexDigit(s[2])
         THEN [ok |-> FromHex(From(s, 2)).ok,
               bytes |-> <<16 * DigitVal(s[1]) + DigitVal(s[2])>>
                             \o FromHex(From(s, 2)).bytes]
    ELSE [ok |-> FALSE, bytes |-> <<>>]

\* set_delimiter(hexstr): [ok, delimiter], ok the value returned
set_delimiter(hexstr) ==
    LET h == Upper(SelectSeq(hexstr, LAMBDA c : c # SP))
    IN  IF Len(h) = 0 \/ Len(h) % 2 # 0 THEN [ok |-> FALSE, delimiter |-> delimiter]
        ELSE IF FromHex(h).ok THEN [ok |-> TRUE, delimiter |-> FromHex(h).bytes]
        ELSE [ok |-> FALSE, delimiter |-> delimiter]

\* set_timeout(ms): the new timeout_ms
set_timeout(ms) == Max(MinTimeout, Min(MaxTimeout, ms))

\* ------------------------------------------------------------ BusStatistics
\* Times are whole seconds.  The floats of the class (stopbits, bits_per_byte,
\* current_load, peak_load) are kept as exact fractions <<numerator,
\* denominator>>, denominator > 0.
Second == 1

\* a < b for two fractions
FracLess(a, b) == IF a[2] = b[2] THEN a[1] < b[1] ELSE a[1] * b[2] < b[1] * a[2]

\* parity = "None"
ParityNone == <<78, 111, 110, 101>>

\* the baud rate the GUI starts with
DefaultBaudrate == 57600

\* deque(maxlen=100)
HistoryLen == 100

\* a bits_per_byte that leaves the parity bit out
BitsPerByte_NoParity(databits, parity, stopbits) ==
    <<(1 + databits) * stopbits[2] + stopbits[1], stopbits[2]>>

\* "self.parity_bit = 1 if parity != 'None' else 0" and
\* "self.bits_per_byte = 1 + databits + self.parity_bit + stopbits"
BitsPerByte(databits, parity, stopbits) ==
    LET parity_bit == IF parity # ParityNone THEN 1 ELSE 0
    IN  <<(1 + databits + parity_bit) * stopbits[2] + stopbits[1], stopbits[2]>>

\* BusStatistics.__init__: the load part of the new object
BusStatistics(baudrate, databits, parity, stopbits) ==
    [baudrate |-> baudrate,
     databits |-> databits,
     parity_bit |-> IF parity # ParityNone THEN 1 ELSE 0,
     stopbits |-> stopbits,
     bits_per_byte |-> BitsPerByte(databits, parity, stopbits),
     byte_history |-> <<>>,
     peak_load |-> <<0, 1>>,
     peak_bytes_per_sec |-> 0,
     current_bytes_per_sec |-> 0,
     current_load |-> <<0, 1>>]

\* deque.append on a deque with maxlen: a full deque drops its oldest entry
DequeAppend(history, sample) ==
    IF Len(history) >= HistoryLen THEN Append(Tail(history), sample)
    ELSE Append(history, sample)

\* "sum(count for ts, count in self.byte_history if ts >= cutoff)"
RECURSIVE RecentBytes(_, _)
RecentBytes(history, cutoff) ==
    IF history = <<>> THEN 0
    ELSE (IF Head(history).ts >= cutoff THEN Head(history).count ELSE 0)
         + RecentBytes(Tail(history), cutoff)

\* "self.current_bytes_per_sec = recent_bytes", "bits_per_second = recent_bytes
\* * self.bits_per_byte" and "self.current_load = (bits_per_second /
\* self.baudrate) * 100.0"
BusCurrent(b, recent_bytes) ==
    LET bits_per_second == <<recent_bytes * b.bits_per_byte[1], b.bits_per_byte[2]>>
    IN  [b EXCEPT !.current_bytes_per_sec = recent_bytes,
                  !.current_load = <<bits_per_second[1] * 100,
                                     bits_per_second[2] * b.baudrate>>]

\* the two peak tests at the end of update
BusPeaks(b) ==
    [b EXCEPT !.peak_load = IF FracLess(@, b.current_load) THEN b.current_load ELSE @,
              !.peak_bytes_per_sec = IF b.current_bytes_per_sec > @
                                     THEN b.current_bytes_per_sec ELSE @]

\* BusStatistics.update(byte_count, 0) at time now: the load part
BusUpdate(b, now, byte_count) ==
    LET history == DequeAppend(b.byte_history, [ts |-> now, count |-> byte_count])
        cutoff == now - Second
        recent_bytes == RecentBytes(history, cutoff)
    IN  BusPeaks(BusCurrent([b EXCEPT !.byte_history = history], recent_bytes))

\* BusStatistics.reset: the load part
BusReset(b) ==
    [b EXCEPT !.byte_history = <<>>, !.peak_load = <<0, 1>>, !.peak_bytes_per_sec = 0,
              !.current_bytes_per_sec = 0, !.current_load = <<0, 1>>]

\* -------------------------------------------------- ShutterRemoteProtocol
\* (src/Plugin/plugin_shutter_remote_v1.py)  Pulse durations are in
\* microseconds; raw_bits, a str of '0' and '1', is a sequence of the
\* character codes 48 and 49; a command name is a sequence of character codes.
SYNC_MIN == 2200
SYNC_MAX == 2500
SHORT_MIN == 350
SHORT_MAX == 600
LONG_MIN == 900
LONG_MAX == 1200
END_MIN == 5000
MinPulses == 78        \* fewer samples are not decoded
SyncSearch == 5        \* the sync pulse is looked for in the first samples
SyncFallback == 2000   \* the second search accepts a longer pulse
MinBits == 36          \* fewer bits are not a frame
FrameBits == 40
HistoryMax == 100

DEFAULT_COMMANDS ==
    <<[k |-> 1, v |-> <<83, 84, 79, 80>>],     \* 0x1: "STOP"
      [k |-> 2, v |-> <<85, 80>>],             \* 0x2: "UP"
      [k |-> 3, v |-> <<68, 79, 87, 78>>],     \* 0x3: "DOWN"
      [k |-> 4, v |-> <<85, 80>>],             \* 0x4: "UP"
      [k |-> 5, v |-> <<68, 79, 87, 78>>],     \* 0x5: "DOWN"
      [k |-> 8, v |-> <<80, 82, 79, 71>>],     \* 0x8: "PROG"
      [k |-> 10, v |-> <<83, 84, 79, 80>>]>>   \* 0xA: "STOP"

\* None where a ShutterCommand is expected (ok = FALSE)
NoCommand ==
    [ok |-> FALSE, raw_bits |-> <<>>, remote_id |-> 0, channel |-> 0,
     channel_label |-> 0, command |-> <<>>, command_code |-> 0, checksum |-> 0,
     timestamp |-> 0]

\* ShutterRemoteProtocol.__init__ where no configuration file exists
ShutterRemoteProtocol ==
    [learned_remotes |-> <<>>, learned_commands |-> <<>>, channel_mapping |-> <<>>,
     decode_count |-> 0, last_command |-> NoCommand, history |-> <<>>]

\* the first test of decode_pulses, on the empty sequence only
TooShort_Empty(pulses) == pulses = <<>>

\* not pulses or len(pulses) < 78
TooShort(pulses) == pulses = <<>> \/ Len(pulses) < MinPulses

\* the search for the sync pulse without its second pass
SyncIndex_StrictOnly(pulses) ==
    LET strict == {i \in 0..(Min(SyncSearch, Len(pulses)) - 1) :
                      SYNC_MIN <= pulses[i + 1] /\ pulses[i + 1] <= SYNC_MAX}
    IN  IF strict # {} THEN SetMin(strict) ELSE 0 - 1

\* sync_idx: the 0-based index, among the first five samples, of the first
\* pulse of 2200..2500, else of the first pulse above 2000, else -1
SyncIndex(pulses) ==
    LET first == 0..(Min(SyncSearch, Len(pulses)) - 1)
        strict == {i \in first : SYNC_MIN <= pulses[i + 1] /\ pulses[i + 1] <= SYNC_MAX}
        loose == {i \in first : pulses[i + 1] > SyncFallback}
    IN  IF strict # {} THEN SetMin(strict)
        ELSE IF loose # {} THEN SetMin(loose)
        ELSE 0 - 1

\* the samples after the sync pulse, without a closing pause of 5000 or more
DataPulses(pulses, sync_idx) ==
    LET rest == From(pulses, sync_idx + 1)
    IN  IF rest # <<>> /\ rest[Len(rest)] >= END_MIN
        THEN SubSeq(rest, 1, Len(rest) - 1)
        ELSE rest

\* the bit of one pair of pulses: long-short '1', short-long '0', otherwise
\* by the longer of the two
PulseBit(p1, p2) ==
    LET is_short(p) == SHORT_MIN <= p /\ p <= SHORT_MAX
        is_long(p) == LONG_MIN <= p /\ p <= LONG_MAX
    IN  IF is_long(p1) /\ is_short(p2) THEN 49
        ELSE IF is_short(p1) /\ is_long(p2) THEN 48
        ELSE IF p1 > p2 THEN 49 ELSE 48

\* one bit for every two neighbouring pulses, the pairs overlapping
PulseBits_Overlapping(data_pulses) ==
    [k \in 1..(Len(data_pulses) - 1) |->
        PulseBit(data_pulses[k], data_pulses[k + 1])]

\* for i in range(0, len(data_pulses) - 1, 2): one bit per complete pair
PulseBits(data_pulses) ==
    [k \in 1..(Len(data_pulses) \div 2) |->
        PulseBit(data_pulses[2 * k - 1], data_pulses[2 * k])]

\* the bits read with the lowest bit first
RECURSIVE BinValue_LittleEndian(_)
BinValue_LittleEndian(bits) ==
    IF bits = <<>> THEN 0
    ELSE (bits[1] - 48) + 2 * BinValue_LittleEndian(Tail(bits))

\* int(bits, 2)
RECURSIVE BinValue(_)
BinValue(bits) ==
    IF bits = <<>> THEN 0
    ELSE 2 * BinValue(SubSeq(bits, 1, Len(bits) - 1)) + (bits[Len(bits)] - 48)

\* the label looked up in the mapping of whichever remote has one
_get_channel_label_AnyRemote(self, remote_id, internal) ==
    LET having == {i \in 1..Len(self.channel_mapping) :
                      DictHas(self.channel_mapping[i].v, IntToStr(internal))}
    IN  IF having # {}
        THEN DictGet(self.channel_mapping[SetMin(having)].v, IntToStr(internal))
        ELSE IF internal > 0 THEN internal - 1 ELSE internal

\* the label taken to be the internal channel
_get_channel_label_Raw(self, remote_id, internal) == internal

_get_channel_label(self, remote_id, internal) ==
    IF /\ DictHas(self.channel_mapping, remote_id)
       /\ DictHas(DictGet(self.channel_mapping, remote_id), IntToStr(internal))
    THEN DictGet(DictGet(self.channel_mapping, remote_id), IntToStr(internal))
    ELSE IF internal > 0 THEN internal - 1 ELSE internal

\* the name looked up in the table of codes before the learned names
_get_command_name_TableFirst(self, code, bits) ==
    IF DictHas(DEFAULT_COMMANDS, code) THEN DictGet(DEFAULT_COMMANDS, code)
    ELSE IF DictHas(self.learned_commands, bits) THEN DictGet(self.learned_commands, bits)
    ELSE <<67, 77, 68, 95>> \o NatToHex(code)

_get_command_name(self, code, bits) ==
    IF DictHas(self.learned_commands, bits) THEN DictGet(self.learned_commands, bits)
    ELSE IF DictHas(DEFAULT_COMMANDS, code) THEN DictGet(DEFAULT_COMMANDS, code)
    ELSE <<67, 77, 68, 95>> \o NatToHex(code)

\* decode_pulses(pulses) at time now: [cmd, self], the value returned
\* (NoCommand: None) and the object afterwards
\* a full history refuses the new command
HistoryAppend_KeepOldest(history, cmd) ==
    IF Len(history) >= HistoryMax THEN history ELSE Append(history, cmd)

\* self.history.append(cmd), then pop(0) when more than 100 are held
HistoryAppend(history, cmd) ==
    LET appended == Append(history, cmd)
    IN  IF Len(appended) > HistoryMax THEN Tail(appended) ELSE appended

decode_pulses(self, pulses, now) ==
    LET sync_idx == SyncIndex(pulses)
        decoded == PulseBits(DataPulses(pulses, sync_idx))
        bits == Slice(decoded \o [i \in 1..(FrameBits - Len(decoded)) |-> 48], 0, FrameBits)
        remote_id == BinValue(Slice(bits, 0, 24))
        channel_internal == BinValue(Slice(bits, 24, 28))
        command_code == BinValue(Slice(bits, 28, 32))
        cmd == [ok |-> TRUE, raw_bits |-> bits, remote_id |-> remote_id,
                channel |-> channel_internal,
                channel_label |-> _get_channel_label(self, remote_id, channel_internal),
                command |-> _get_command_name(self, command_code, bits),
                command_code |-> command_code,
                checksum |-> BinValue(Slice(bits, 32, 40)),
                timestamp |-> now]
    IN  IF TooShort(pulses) \/ sync_idx < 0 \/ Len(decoded) < MinBits
        THEN [cmd |-> NoCommand, self |-> self]
        ELSE [cmd |-> cmd,
              self |-> [self EXCEPT !.decode_count = @ + 1,
                                    !.last_command = cmd,
                                    !.history = HistoryAppend(@, cmd)]]

\* f"{n:0<width>b}" for n >= 0: the binary digits of n, filled with zeros on
\* the left to width characters, more than width if n needs them
RECURSIVE FormatBin(_, _)
FormatBin(n, width) ==
    IF n < 2 /\ width <= 1 THEN <<48 + n>>
    ELSE FormatBin(n \div 2, width - 1) \o <<48 + (n % 2)>>

\* generate_pulses(remote_id, channel, command): the list of pulses
generate_pulses(remote_id, channel, command) ==
    LET cmd_codes == <<[k |-> <<83, 84, 79, 80>>, v |-> 1],    \* 'STOP': 0x1
                       [k |-> <<85, 80>>, v |-> 2],            \* 'UP': 0x2
                       [k |-> <<68, 79, 87, 78>>, v |-> 3],    \* 'DOWN': 0x3
                       [k |-> <<80, 82, 79, 71>>, v |-> 8]>>   \* 'PROG': 0x8
        command_code == IF DictHas(cmd_codes, Upper(command))
                        THEN DictGet(cmd_codes, Upper(command)) ELSE 1
        channel_internal == channel + 1
        checksum == 50                                         \* 0x32
        bits == FormatBin(remote_id, 24) \o FormatBin(channel_internal, 4)
                \o FormatBin(command_code, 4) \o FormatBin(checksum, 8)
    IN  <<700, 2400>>
        \o [i \in 1..(2 * Len(bits)) |->
               IF bits[(i + 1) \div 2] = 49
               THEN (IF i % 2 = 1 THEN 1050 ELSE 450)
               ELSE (IF i % 2 = 1 THEN 450 ELSE 1050)]
        \o <<7000>>

\* the mapping replaced by the one entry
learn_remote_Only(self, remote_id, name) ==
    [self EXCEPT !.learned_remotes = <<[k |-> remote_id, v |-> name]>>]

\* learn_remote, learn_channel, learn_command: the object after the
\* assignment (the save that follows is _save_learned_data)
learn_remote(self, remote_id, name) ==
    [self EXCEPT !.learned_remotes = DictSet(@, remote_id, name)]

learn_channel(self, remote_id, internal, label) ==
    LET mapping == IF DictHas(self.channel_mapping, remote_id)
                   THEN DictGet(self.channel_mapping, remote_id) ELSE <<>>
    IN  [self EXCEPT !.channel_mapping =
            DictSet(@, remote_id, DictSet(mapping, IntToStr(internal), label))]

learn_command(self, bits, name) ==
    [self EXCEPT !.learned_commands = DictSet(@, bits, Upper(name))]

\* the key written with the decimal digits of k
HexKey_Decimal(k) == <<48, 120>> \o IntToStr(k)

\* f"0x{k:06X}"
HexKey(k) ==
    LET digits == NatToHex(IF k < 0 THEN 0 - k ELSE k)
        width == IF k < 0 THEN 5 ELSE 6
        zeros == [i \in 1..(width - Len(digits)) |-> 48]
    IN  <<48, 120>> \o (IF k < 0 THEN <<45>> ELSE <<>>) \o zeros \o digits

\* the configuration file does not exist
NoFile == [state |-> "absent", remotes |-> <<>>, commands |-> <<>>, channels |-> <<>>]

\* _save_learned_data(): the file afterwards.  outcome: "written"; "refused"
\* (open raises, the file is as it was); "broken" (an error after open has
\* emptied the file: what is left is not JSON).  No outcome raises to the
\* caller.
_save_learned_data(self, file, outcome) ==
    LET keyed(d) == [i \in 1..Len(d) |-> [k |-> HexKey(d[i].k), v |-> d[i].v]]
    IN  IF outcome = "refused" THEN file
        ELSE IF outcome = "broken" THEN [NoFile EXCEPT !.state = "partial"]
        ELSE [state |-> "json",
              remotes |-> keyed(self.learned_remotes),
              commands |-> self.learned_commands,
              channels |-> keyed(self.channel_mapping)]

\* _load_learned_data(): the object afterwards.  The three assignments are
\* made one after the other inside one try; a key that int(k, 16) rejects
\* ends the loading where it stands.
_load_learned_data(self, file) ==
    LET keys_ok(d) == \A i \in 1..Len(d) : PyInt(d[i].k, 16).ok
        by_int(d) ==
            LET upto[i \in 0..Len(d)] ==
                    IF i = 0 THEN <<>>
                    ELSE DictSet(upto[i - 1], PyInt(d[i].k, 16).val, d[i].v)
            IN  upto[Len(d)]
    IN  IF file.state # "json" THEN self
        ELSE IF ~keys_ok(file.remotes) THEN self
        ELSE IF ~keys_ok(file.channels)
        THEN [self EXCEPT !.learned_remotes = by_int(file.remotes),
                          !.learned_commands = file.commands]
        ELSE [self EXCEPT !.learned_remotes = by_int(file.remotes),
                          !.learned_commands = file.commands,
                          !.channel_mapping = by_int(file.channels)]

\* the reader is not in update
UpdIdle == [at |-> "idle", recent_bytes |-> 0]

\* no process_rflink_message is under way
ProcIdle == [at |-> "idle", msg |-> NoMsg, key |-> <<>>, message_count |-> 0, values |-> <<>>]

\* -------------------------------------------------------------------- Init
\* RS485Sniffer.__init__ followed by the settings applied before the first
\* start (modes, delims, timeouts: the settings a run may begin with)
InitSniffer(modes, delims, timeouts) ==
    /\ running = FALSE
    /\ ser = "none"
    /\ thread = 0
    /\ frame_mode \in modes
    /\ delimiter \in delims
    /\ timeout_ms \in timeouts
    /\ show_hex = TRUE
    /\ show_ascii = TRUE
    /\ rx_queue = <<>>
    /\ rflink_msg_queue = <<>>
    /\ rflink_devices = <<>>
    /\ plugin_enabled = [name \in Range(PluginOrder) |-> TRUE]
    /\ switch_history = <<>>
    /\ pc = [t \in Threads |-> "idle"]
    /\ buffer = [t \in Threads |-> <<>>]
    /\ data = [t \in Threads |-> <<>>]
    /\ idx0 = [t \in Threads |-> 0]
    /\ since = [t \in Threads |-> 0]
    /\ gpc = "idle"
    /\ join_result = "none"
    /\ inbuf = <<>>
    /\ arrived = 0
    /\ received = <<>>
    /\ quiet = 0
    /\ proc = ProcIdle
    /\ cleared = [at |-> 0 - 1, during |-> FALSE]
    /\ clock = 0
    /\ upd = UpdIdle
    /\ display = [load |-> <<0, 1>>, bytes_sec |-> 0, total_bytes |-> 0,
                  total_frames |-> 0, complete |-> TRUE]
    /\ zeroed = 0 - 1
    /\ shutter = ShutterRemoteProtocol
    /\ config_file = NoFile

\* self.stats = None until start() builds the object; bus then holds the
\* load part of an object built from the settings the GUI starts with
InitApp(modes, delims, timeouts) ==
    /\ InitSniffer(modes, delims, timeouts)
    /\ stats = [set |-> FALSE, total_bytes |-> 0, total_frames |-> 0]
    /\ bus = BusStatistics(DefaultBaudrate, 8, ParityNone, <<1, 1>>)

\* no call of a function on its own is under way
NoCall == [done |-> FALSE, val |-> NoMsg]

InitWith(modes, delims, timeouts) ==
    /\ InitApp(modes, delims, timeouts)
    /\ arg = <<>>
    /\ result = NoCall

\* the state after construction: MODE_BOTH, 0D 0A, 50 ms
Init == InitWith({MODE_BOTH}, {<<CR, LF>>}, {DefaultTimeout})

\* ------------------------------------------------------------- environment
\* one byte arrives at the open port
Arrive(b) ==
    /\ ser = "open"
    /\ arrived < MaxStream
    /\ inbuf' = Append(inbuf, b)
    /\ arrived' = arrived + 1
    /\ UNCHANGED <<callVars, cfgVars, rflinkVars, guiVars, readerVars, histVars, stats, rx_queue>>

Alive(t) == pc[t] \notin {"idle", "done", "crashed"}

\* one millisecond passes
Tick ==
    /\ \E t \in Threads : Alive(t)
    /\ since' = [t \in Threads |-> IF Alive(t) THEN Min(since[t] + 1, MaxElapsed)
                                   ELSE since[t]]
    /\ quiet' = Min(quiet + 1, MaxElapsed)
    /\ UNCHANGED <<callVars, cfgVars, rflinkVars, guiVars, envVars, stats, rx_queue,
                   pc, buffer, data, idx0, received>>

\* ------------------------------------------------------------ start, stop
\* start(): opens the port, creates the statistics, starts a reader thread
Start ==
    /\ gpc = "idle"
    /\ ~running
    /\ \E t \in Threads :
          /\ pc[t] = "idle"
          /\ \A u \in Threads : u < t => pc[u] # "idle"
          /\ thread' = t
          /\ pc' = [pc EXCEPT ![t] = "loop"]
    /\ ser' = "open"
    /\ inbuf' = <<>>
    /\ stats' = [set |-> TRUE, total_bytes |-> 0, total_frames |-> 0]
    /\ running' = TRUE
    /\ UNCHANGED <<callVars, cfgVars, rflinkVars, rx_queue, buffer, data, idx0, since,
                   gpc, join_result, arrived, histVars>>

\* stop(): self.running = False
StopBegin ==
    /\ gpc = "idle"
    /\ running
    /\ running' = FALSE
    /\ gpc' = "join"
    /\ UNCHANGED <<callVars, cfgVars, rflinkVars, envVars, readerVars, histVars, stats,
                   rx_queue, ser, thread, join_result>>

\* stop(): the thread is not alive, or the join returns because it ended
StopJoinEnded ==
    /\ gpc = "join"
    /\ thread = 0 \/ ~Alive(thread)
    /\ gpc' = "close"
    /\ join_result' = "ended"
    /\ UNCHANGED <<callVars, cfgVars, rflinkVars, envVars, readerVars, histVars, stats,
                   rx_queue, running, ser, thread>>

\* stop(): join(timeout=2.0) returns with the thread still alive
StopJoinTimeout ==
    /\ gpc = "join"
    /\ thread # 0 /\ Alive(thread)
    /\ gpc' = "close"
    /\ join_result' = "timeout"
    /\ UNCHANGED <<callVars, cfgVars, rflinkVars, envVars, readerVars, histVars, stats,
                   rx_queue, running, ser, thread>>

\* stop(): self.ser.close()
StopClose ==
    /\ gpc = "close"
    /\ ser' = IF ser = "none" THEN "none" ELSE "closed"
    /\ gpc' = IF ser = "none" THEN "idle" ELSE "release"
    /\ UNCHANGED <<callVars, cfgVars, rflinkVars, envVars, readerVars, histVars, stats,
                   rx_queue, running, thread, join_result>>

\* stop(): self.ser = None
StopRelease ==
    /\ gpc = "release"
    /\ ser' = "none"
    /\ gpc' = "idle"
    /\ UNCHANGED <<callVars, cfgVars, rflinkVars, envVars, readerVars, histVars, stats,
                   rx_queue, running, thread, join_result>>

\* ------------------------------------------------------------- the setters
SetMode(mode) ==
    /\ gpc = "idle"
    /\ frame_mode' = mode
    /\ UNCHANGED <<callVars, delimiter, timeout_ms, show_hex, show_ascii, rflinkVars, guiVars,
                   envVars, readerVars, histVars, stats, rx_queue>>

SetDelimiter(hexstr) ==
    /\ gpc = "idle"
    /\ delimiter' = set_delimiter(hexstr).delimiter
    /\ UNCHANGED <<callVars, frame_mode, timeout_ms, show_hex, show_ascii, rflinkVars, guiVars,
                   envVars, readerVars, histVars, stats, rx_queue>>

SetTimeout(ms) ==
    /\ gpc = "idle"
    /\ timeout_ms' = set_timeout(ms)
    /\ UNCHANGED <<callVars, frame_mode, delimiter, show_hex, show_ascii, rflinkVars, guiVars,
                   envVars, readerVars, histVars, stats, rx_queue>>

\* ------------------------------------------------------------ reader_thread
\* while self.running:
ReaderLoop(t) ==
    /\ pc[t] = "loop"
    /\ pc' = [pc EXCEPT ![t] = IF running THEN "check" ELSE "flush"]
    /\ UNCHANGED <<callVars, cfgVars, rflinkVars, guiVars, envVars, histVars, stats, rx_queue,
                   buffer, data, idx0, since>>

\* if not self.ser or not self.ser.is_open: break
ReaderCheck(t) ==
    /\ pc[t] = "check"
    /\ pc' = [pc EXCEPT ![t] = IF ser = "open" THEN "read" ELSE "flush"]
    /\ UNCHANGED <<callVars, cfgVars, rflinkVars, guiVars, envVars, histVars, stats, rx_queue,
                   buffer, data, idx0, since>>

\* the bytes of one read, with their history tags
Chunk(bytes) ==
    [i \in 1..Len(bytes) |->
        [v |-> bytes[i],
         n |-> Len(received) + i,
         g |-> IF i = 1 /\ received # <<>> THEN quiet ELSE 0]]

\* waiting = self.ser.in_waiting; data = self.ser.read(waiting) or b"".
\* A port closed meanwhile raises SerialException (the error record, break);
\* self.ser set to None meanwhile raises AttributeError, which nothing catches.
ReaderRead(t) ==
    /\ pc[t] = "read"
    /\ IF ser = "open"
       THEN /\ data' = [data EXCEPT ![t] = Chunk(inbuf)]
            /\ inbuf' = <<>>
            /\ received' = received \o Chunk(inbuf)
            /\ since' = [since EXCEPT ![t] = IF inbuf # <<>> THEN 0 ELSE @]
            /\ quiet' = IF inbuf # <<>> THEN 0 ELSE quiet
            /\ pc' = [pc EXCEPT ![t] = "frame"]
            /\ UNCHANGED rx_queue
       ELSE /\ pc' = [pc EXCEPT ![t] = IF ser = "closed" THEN "flush" ELSE "crashed"]
            /\ rx_queue' = IF ser = "closed" THEN Append(rx_queue, ErrorRecord)
                           ELSE rx_queue
            /\ UNCHANGED <<data, inbuf, received, since, quiet>>
    /\ UNCHANGED <<callVars, cfgVars, rflinkVars, guiVars, stats, buffer, idx0, arrived>>

\* the read fails on the open port (the device is gone): SerialException,
\* the error record is put and the loop is left
ReaderReadError(t) ==
    /\ pc[t] = "read"
    /\ ser = "open"
    /\ rx_queue' = Append(rx_queue, ErrorRecord)
    /\ pc' = [pc EXCEPT ![t] = "flush"]
    /\ UNCHANGED <<callVars, cfgVars, rflinkVars, guiVars, envVars, histVars, stats,
                   buffer, data, idx0, since>>

\* one frame for all the bytes of a read
RawFrames_Whole(bytes) == <<format_frame(bytes, FALSE)>>

\* the one-byte frames of raw mode for the bytes of one read
RawFrames(bytes) == [i \in 1..Len(bytes) |-> format_frame(<<bytes[i]>>, FALSE)]

\* if data: stats.update; raw mode: one frame per byte, continue;
\* otherwise buffer += data
ReaderFrame(t) ==
    /\ pc[t] = "frame"
    /\ IF data[t] = <<>>
       THEN /\ pc' = [pc EXCEPT ![t] = "timeout"]
            /\ UNCHANGED <<stats, rx_queue, buffer>>
       ELSE IF frame_mode = MODE_RAW
       THEN /\ rx_queue' = rx_queue \o RawFrames(data[t])
            /\ stats' = IF stats.set
                        THEN [stats EXCEPT !.total_bytes = @ + Len(data[t]),
                                           !.total_frames = @ + Len(data[t])]
                        ELSE stats
            /\ pc' = [pc EXCEPT ![t] = "loop"]
            /\ UNCHANGED buffer
       ELSE /\ buffer' = [buffer EXCEPT ![t] = @ \o data[t]]
            /\ stats' = StatsUpdate(Len(data[t]))
            /\ pc' = [pc EXCEPT ![t] = "mode2"]
            /\ UNCHANGED rx_queue
    /\ UNCHANGED <<callVars, cfgVars, rflinkVars, guiVars, envVars, histVars, data, idx0, since>>

\* if self.frame_mode == self.MODE_RFLINK:
ReaderModeLine(t) ==
    /\ pc[t] = "mode2"
    /\ pc' = [pc EXCEPT ![t] = IF frame_mode = MODE_RFLINK THEN "line" ELSE "mode3"]
    /\ UNCHANGED <<callVars, cfgVars, rflinkVars, guiVars, envVars, histVars, stats, rx_queue,
                   buffer, data, idx0, since>>

\* a cut that takes the \r of a \r\n and leaves the \n
LineCut_SplitCRLF(bytes) ==
    IF PyFind(bytes, <<CR, LF>>) >= 0
          /\ PyFind(bytes, <<CR, LF>>) < PyFind(bytes, <<LF>>)
    THEN PyFind(bytes, <<CR, LF>>) + 1
    ELSE PyFind(bytes, <<LF>>) + 1

\* idx of the line loop: past the first \r\n if it comes before the first
\* \n, else past the first \n
LineCut(bytes) ==
    LET idx_rn == PyFind(bytes, <<CR, LF>>)
        idx_n == PyFind(bytes, <<LF>>)
    IN  IF idx_rn >= 0 /\ (idx_n < 0 \/ idx_rn < idx_n) THEN idx_rn + 2
        ELSE idx_n + 1

\* line_bytes.decode("utf-8", errors="replace").strip()
LineStr(line_bytes) == PyStrip(Utf8Decode(Val(line_bytes)))

\* one turn of "while b'\r\n' in buffer or b'\n' in buffer": cut a line,
\* parse it, process the message (devices, plugins, rflink_msg_queue), put
\* the record; after the last line, continue
ReaderLine(t) ==
    /\ pc[t] = "line"
    /\ IF PyIn(<<CR, LF>>, Val(buffer[t])) \/ PyIn(<<LF>>, Val(buffer[t]))
       THEN \E idx \in {LineCut(Val(buffer[t]))} :
            \E line_bytes \in {Slice(buffer[t], 0, idx)} :
            \E line_str \in {LineStr(line_bytes)} :
            \E msg \in {parse(line_str)} :
            \E enriched \in {RunPlugins(PluginOrder, msg)} :
                /\ buffer' = [buffer EXCEPT ![t] = From(@, idx)]
                /\ since' = [since EXCEPT ![t] = 0]
                /\ IF line_str = <<>>
                   THEN UNCHANGED <<rx_queue, stats, rflink_msg_queue,
                                    rflink_devices, switch_history>>
                   ELSE IF msg.ok
                   THEN /\ rflink_devices' = UpdateDevices(rflink_devices, msg)
                        /\ switch_history' =
                               IF plugin_enabled["Switches & Remotes"]
                               THEN SwitchHistory(switch_history, msg)
                               ELSE switch_history
                        /\ rflink_msg_queue' = Append(rflink_msg_queue, enriched)
                        /\ rx_queue' = Append(rx_queue, RflinkRecord(line_bytes, enriched))
                        /\ stats' = CountFrames(1)
                   ELSE /\ rx_queue' = Append(rx_queue, RawRecord(line_bytes, line_str))
                        /\ stats' = CountFrames(1)
                        /\ UNCHANGED <<rflink_msg_queue, rflink_devices, switch_history>>
                /\ UNCHANGED pc
       ELSE /\ pc' = [pc EXCEPT ![t] = "loop"]
            /\ UNCHANGED <<buffer, since, rx_queue, stats, rflink_msg_queue,
                           rflink_devices, switch_history>>
    /\ UNCHANGED <<callVars, cfgVars, plugin_enabled, guiVars, envVars, histVars, data, idx0>>

\* if self.frame_mode in (self.MODE_DELIMITER, self.MODE_BOTH):
ReaderModeDelim(t) ==
    /\ pc[t] = "mode3"
    /\ pc' = [pc EXCEPT ![t] = IF frame_mode \in {MODE_DELIMITER, MODE_BOTH}
                               THEN "delim" ELSE "timeout"]
    /\ UNCHANGED <<callVars, cfgVars, rflinkVars, guiVars, envVars, histVars, stats, rx_queue,
                   buffer, data, idx0, since>>

\* while self.delimiter in buffer:
ReaderDelimTest(t) ==
    /\ pc[t] = "delim"
    /\ pc' = [pc EXCEPT ![t] = IF PyIn(delimiter, Val(buffer[t]))
                               THEN "index" ELSE "timeout"]
    /\ UNCHANGED <<callVars, cfgVars, rflinkVars, guiVars, envVars, histVars, stats, rx_queue,
                   buffer, data, idx0, since>>

\* buffer.index(self.delimiter): ValueError, which nothing catches, if the
\* delimiter (read again) is not in the buffer
ReaderDelimIndex(t) ==
    /\ pc[t] = "index"
    /\ IF PyIn(delimiter, Val(buffer[t]))
       THEN /\ idx0' = [idx0 EXCEPT ![t] = PyFind(Val(buffer[t]), delimiter)]
            /\ pc' = [pc EXCEPT ![t] = "cut"]
       ELSE /\ pc' = [pc EXCEPT ![t] = "crashed"]
            /\ UNCHANGED idx0
    /\ UNCHANGED <<callVars, cfgVars, rflinkVars, guiVars, envVars, histVars, stats, rx_queue,
                   buffer, data, since>>

\* a cut that takes only the first byte of the delimiter into the frame
CutIndex_OneByte(index, delim) == index + 1

\* idx = buffer.index(self.delimiter) + len(self.delimiter)
CutIndex(index, delim) == index + Len(delim)

\* frame = buffer[:idx]; buffer = buffer[idx:]; the frame is put
ReaderDelimCut(t) ==
    /\ pc[t] = "cut"
    /\ LET idx == CutIndex(idx0[t], delimiter)
       IN  /\ rx_queue' = Append(rx_queue, format_frame(Slice(buffer[t], 0, idx), FALSE))
           /\ buffer' = [buffer EXCEPT ![t] = From(@, Min(idx, Len(@)))]
    /\ stats' = CountFrames(1)
    /\ since' = [since EXCEPT ![t] = 0]
    /\ pc' = [pc EXCEPT ![t] = "delim"]
    /\ UNCHANGED <<callVars, cfgVars, rflinkVars, guiVars, envVars, histVars, data, idx0>>

\* a timeout rule that never finds the deadline reached
TimeoutDue_Never(t) == FALSE

\* the timeout rule: elapsed_ms >= self.timeout_ms with a non-empty buffer
TimeoutDue(t) ==
    /\ frame_mode \in {MODE_TIMEOUT, MODE_BOTH}
    /\ buffer[t] # <<>>
    /\ since[t] >= timeout_ms

\* the timeout block, then "if not data: time.sleep(0.001)"
ReaderTimeout(t) ==
    /\ pc[t] = "timeout"
    /\ IF TimeoutDue(t)
       THEN /\ rx_queue' = Append(rx_queue, format_frame(buffer[t], FALSE))
            /\ stats' = CountFrames(1)
            /\ buffer' = [buffer EXCEPT ![t] = <<>>]
            /\ since' = [since EXCEPT ![t] = 0]
       ELSE UNCHANGED <<rx_queue, stats, buffer, since>>
    /\ pc' = [pc EXCEPT ![t] = "loop"]
    /\ UNCHANGED <<callVars, cfgVars, rflinkVars, guiVars, envVars, histVars, data, idx0>>

\* after the loop: "if buffer:" the incomplete frame is put
ReaderFlush(t) ==
    /\ pc[t] = "flush"
    /\ rx_queue' = IF buffer[t] # <<>>
                   THEN Append(rx_queue, format_frame(buffer[t], TRUE))
                   ELSE rx_queue
    /\ pc' = [pc EXCEPT ![t] = "done"]
    /\ UNCHANGED <<callVars, cfgVars, rflinkVars, guiVars, envVars, histVars, stats,
                   buffer, data, idx0, since>>

\* ------------------------------------------------------- specifications
\* the steps every reader takes in every mode
ReaderCore(t) ==
    \/ ReaderLoop(t)
    \/ ReaderCheck(t)
    \/ ReaderRead(t)
    \/ ReaderFrame(t)
    \/ ReaderTimeout(t)

\* the two tests of frame_mode that follow "buffer += data"
ReaderModes(t) ==
    \/ ReaderModeLine(t)
    \/ ReaderModeDelim(t)

\* the steps of the delimiter search
ReaderDelim(t) ==
    \/ ReaderDelimTest(t)
    \/ ReaderDelimIndex(t)
    \/ ReaderDelimCut(t)

\* Delimiter mode with a fixed delimiter: a one-byte delimiter, 0D 0A, and
\* a delimiter that overlaps itself; the stream is over the delimiters' bytes.
DelimChoices == {<<LF>>, <<CR, LF>>, <<LF, LF>>}
DelimBytes == {CR, LF}

InitDelim == InitWith({MODE_DELIMITER}, DelimChoices, {DefaultTimeout})

NextDelim ==
    \/ Start
    \/ \E b \in DelimBytes : Arrive(b)
    \/ \E t \in Threads : ReaderCore(t)
    \/ \E t \in Threads : ReaderModes(t)
    \/ \E t \in Threads : ReaderDelim(t)

SpecDelim == InitDelim /\ [][NextDelim]_vars

\* Timeout mode with a timeout of one or two milliseconds, time passing
\* between any two steps.
TimeoutChoices == {1, 2}
TimeoutBytes == {65}

InitTimeout == InitWith({MODE_TIMEOUT}, {<<CR, LF>>}, TimeoutChoices)

NextTimeout ==
    \/ Start
    \/ \E b \in TimeoutBytes : arrived < TimeoutStream /\ Arrive(b)
    \/ Tick
    \/ \E t \in Threads : ReaderCore(t)
    \/ \E t \in Threads : ReaderModes(t)

SpecTimeout == InitTimeout /\ [][NextTimeout]_vars

\* Timeout mode and combined mode (delimiter 0A), time passing between any
\* two steps.  Time does not stop, and a reader that can take a step takes
\* one in the end (its thread is scheduled; the sleep of an idle pass ends).
LiveBytes == {65, LF}

ReaderPass(t) ==
    \/ ReaderCore(t)
    \/ ReaderModes(t)
    \/ ReaderDelim(t)

InitLive == InitWith({MODE_TIMEOUT, MODE_BOTH}, {<<LF>>}, TimeoutChoices)

NextLive ==
    \/ Start
    \/ \E b \in LiveBytes : arrived < TimeoutStream /\ Arrive(b)
    \/ Tick
    \/ \E t \in Threads : ReaderPass(t)

SpecLive ==
    /\ InitLive
    /\ [][NextLive]_vars
    /\ WF_vars(Tick)
    /\ \A t \in Threads : WF_vars(ReaderPass(t))

\* Line mode (RFLink): lines over ";" and the two terminator bytes (";;" is
\* a line that parses, ";" one that does not).
LineBytes == {CR, LF, SEMI}

InitLine == InitWith({MODE_RFLINK}, {<<CR, LF>>}, {DefaultTimeout})

NextLine ==
    \/ Start
    \/ \E b \in LineBytes : Arrive(b)
    \/ \E t \in Threads : ReaderCore(t)
    \/ \E t \in Threads : ReaderModeLine(t)
    \/ \E t \in Threads : ReaderLine(t)

SpecLine == InitLine /\ [][NextLine]_vars

\* parse called on its own, on one line of a set of lines: lines with fewer
\* than three fields, the leading fields with each of node, sequence and
\* protocol empty or not (and the OK answer), and after them one or two
\* segments with hex, int, str and unknown keys and values that are or are
\* not numbers.
CallParse ==
    /\ ~result.done
    /\ result' = [done |-> TRUE, val |-> parse(arg)]
    /\ UNCHANGED <<arg, procVars, busVars, shutterVars, cfgVars, rflinkVars, guiVars, envVars, readerVars, histVars,
                   stats, rx_queue>>

RECURSIVE Joined(_)
Joined(parts) ==
    IF Len(parts) = 1 THEN parts[1]
    ELSE parts[1] \o <<SEMI>> \o Joined(Tail(parts))

ParseNodes == {<<>>, <<50, 48>>}          \* "", "20"
ParseSeqs == {<<>>, <<48, 49>>}           \* "", "01"
ParseProtos == {<<>>, <<88>>, P_OK}         \* "", "X", "OK"
ParseKeys == {K_ID, K_HUM, K_CMD, <<90, 90>>, <<>>}   \* ID, HUM, CMD, "ZZ", ""
ParseValues ==
    {<<>>,
     <<49, 65>>,           \* "1A"
     <<45, 55>>,           \* "-7"
     <<71>>,               \* "G"
     <<48, 120, 49, 102>>,  \* "0x1f"
     <<49, 95, 48>>,       \* "1_0"
     <<32, 53>>,           \* " 5"
     <<49, 61, 50>>}       \* "1=2"
ParseSegments ==
    {k \o <<EQ>> \o v : k \in ParseKeys, v \in ParseValues} \cup {<<78, 79>>}
ParseHeads == {<<n, q, p>> : n \in ParseNodes, q \in ParseSeqs, p \in ParseProtos}

ParseLines ==
    {<<>>, <<SP>>, <<SEMI>>, <<50, 48>>, <<50, 48, 59, 48, 49>>}
    \cup {Joined(h) : h \in ParseHeads}
    \cup {<<SP>> \o Joined(h) \o <<CR>> : h \in ParseHeads}
    \cup {Joined(h \o <<x>>) : h \in ParseHeads, x \in ParseSegments}
    \cup {Joined(<<<<50, 48>>, <<48, 49>>, <<88>>, x, y>>) :
              x \in ParseSegments, y \in ParseSegments}

InitParse ==
    /\ InitApp({MODE_RFLINK}, {<<CR, LF>>}, {DefaultTimeout})
    /\ arg \in ParseLines
    /\ result = NoCall

NextParse == CallParse

SpecParse == InitParse /\ [][NextParse]_vars

\* ------------------------------------------------------ the device registry
\* process_rflink_message called on its own, message after message; arg is the
\* sequence of the messages passed so far
MaxMessages == 3

CallProcessMessage(msg) ==
    /\ Len(arg) < MaxMessages
    /\ arg' = Append(arg, msg)
    /\ rflink_devices' = UpdateDevices(rflink_devices, msg)
    /\ switch_history' = IF plugin_enabled["Switches & Remotes"]
                         THEN SwitchHistory(switch_history, msg)
                         ELSE switch_history
    /\ rflink_msg_queue' = Append(rflink_msg_queue, RunPlugins(PluginOrder, msg))
    /\ UNCHANGED <<result, procVars, busVars, shutterVars, plugin_enabled, cfgVars, guiVars, envVars, readerVars,
                   histVars, stats, rx_queue>>

DeviceHeads ==
    {<<50, 48, 59, 48, 49, 59, 65, 59, 73, 68, 61, 49>>,   \* 20;01;A;ID=1
     <<50, 48, 59, 48, 49, 59, 65, 59, 73, 68, 61, 49, 59, 83, 87, 73, 84, 67, 72, 61, 50>>,   \* 20;01;A;ID=1;SWITCH=2
     <<50, 48, 59, 48, 49, 59, 65, 58, 49, 59, 73, 68, 61, 50>>,   \* 20;01;A:1;ID=2
     <<50, 48, 59, 48, 49, 59, 65, 59, 73, 68, 61, 50>>}   \* 20;01;A;ID=2
DevicePayloads ==
    {<<84, 69, 77, 80, 61, 48, 48, 99, 51, 59>>,   \* TEMP=00c3;
     <<72, 85, 77, 61, 53, 48, 59>>,   \* HUM=50;
     <<84, 69, 77, 80, 61, 48, 48, 99, 52, 59, 67, 77, 68, 61, 79, 78, 59>>}   \* TEMP=00c4;CMD=ON;
DeviceLines ==
    {h \o <<SEMI>> \o p : h \in DeviceHeads, p \in DevicePayloads}
    \cup {<<50, 48, 59, 48, 49, 59, 65, 59, 84, 69, 77, 80, 61, 48, 48, 99, 51, 59>>}
DeviceMessages == {parse(l) : l \in DeviceLines}

InitDevices ==
    /\ InitApp({MODE_RFLINK}, {<<CR, LF>>}, {DefaultTimeout})
    /\ arg = <<>>
    /\ result = NoCall

NextDevices == \E msg \in DeviceMessages : CallProcessMessage(msg)

SpecDevices == InitDevices /\ [][NextDevices]_vars

\* process_rflink_message step by step, as the reader runs it while the GUI
\* thread runs reset_stats.  Each step holds one access to rflink_devices.
\* "if 'ID' in msg.fields", the new RFLinkDevice, "key in self.rflink_devices"
ProcBegin(msg) ==
    /\ proc.at = "idle"
    /\ Len(arg) < MaxMessages
    /\ arg' = Append(arg, msg)
    /\ proc' = IF DictHas(msg.fields, K_ID)
               THEN LET key == unique_id(msg.protocol, FieldStr(msg, K_ID),
                                         FieldStr(msg, K_SWITCH))
                    IN  [at |-> IF DictHas(rflink_devices, key) THEN "count" ELSE "merge",
                         msg |-> msg, key |-> key, message_count |-> 1, values |-> <<>>]
               ELSE [ProcIdle EXCEPT !.at = "plugins", !.msg = msg]
    /\ UNCHANGED <<result, cleared, busVars, shutterVars, cfgVars, rflinkVars, guiVars, envVars, readerVars,
                   histVars, stats, rx_queue>>

\* "device.message_count = self.rflink_devices[key].message_count + 1";
\* KeyError when the key is gone
ProcCount ==
    /\ proc.at = "count"
    /\ proc' = IF DictHas(rflink_devices, proc.key)
               THEN [proc EXCEPT !.at = "values",
                        !.message_count = DictGet(rflink_devices, proc.key).message_count + 1]
               ELSE [proc EXCEPT !.at = "raised"]
    /\ UNCHANGED <<arg, result, cleared, busVars, shutterVars, cfgVars, rflinkVars, guiVars, envVars,
                   readerVars, histVars, stats, rx_queue>>

\* "device.values = self.rflink_devices[key].values.copy()"
ProcValues ==
    /\ proc.at = "values"
    /\ proc' = IF DictHas(rflink_devices, proc.key)
               THEN [proc EXCEPT !.at = "merge",
                        !.values = DictGet(rflink_devices, proc.key).values]
               ELSE [proc EXCEPT !.at = "raised"]
    /\ UNCHANGED <<arg, result, cleared, busVars, shutterVars, cfgVars, rflinkVars, guiVars, envVars,
                   readerVars, histVars, stats, rx_queue>>

\* the loop over msg.fields and "self.rflink_devices[key] = device"
ProcStore ==
    /\ proc.at = "merge"
    /\ rflink_devices' =
           DictSet(rflink_devices, proc.key,
                   [protocol |-> proc.msg.protocol,
                    device_id |-> FieldStr(proc.msg, K_ID),
                    switch |-> FieldStr(proc.msg, K_SWITCH),
                    last_cmd |-> FieldStr(proc.msg, K_CMD),
                    message_count |-> proc.message_count,
                    values |-> MergeValues(proc.values, proc.msg.fields)])
    /\ proc' = [proc EXCEPT !.at = "plugins"]
    /\ UNCHANGED <<arg, result, cleared, busVars, shutterVars, cfgVars, rflink_msg_queue, plugin_enabled,
                   switch_history, guiVars, envVars, readerVars, histVars, stats, rx_queue>>

\* the loop over self.plugins and "self.rflink_msg_queue.put(msg)"
ProcPlugins ==
    /\ proc.at = "plugins"
    /\ switch_history' = IF plugin_enabled["Switches & Remotes"]
                         THEN SwitchHistory(switch_history, proc.msg)
                         ELSE switch_history
    /\ rflink_msg_queue' = Append(rflink_msg_queue, RunPlugins(PluginOrder, proc.msg))
    /\ proc' = ProcIdle
    /\ UNCHANGED <<arg, result, cleared, busVars, shutterVars, cfgVars, rflink_devices, plugin_enabled,
                   guiVars, envVars, readerVars, histVars, stats, rx_queue>>

\* BusStatistics.reset: the cumulative part
StatsReset ==
    IF stats.set THEN [stats EXCEPT !.total_bytes = 0, !.total_frames = 0] ELSE stats

\* SnifferGUI.reset_stats, first half: "if self.sniffer.stats: stats.reset()"
ResetStats ==
    /\ gpc = "idle"
    /\ gpc' = "clear"
    /\ stats' = StatsReset
    /\ bus' = IF stats.set THEN BusReset(bus) ELSE bus
    /\ zeroed' = IF stats.set THEN Len(arg.updates) ELSE zeroed
    /\ UNCHANGED <<arg, result, procVars, clock, upd, display, shutterVars, cfgVars, rflinkVars,
                   running, ser, thread, join_result, envVars, readerVars, histVars,
                   rx_queue>>

\* SnifferGUI.reset_stats, second half: "self.sniffer.rflink_devices.clear()"
\* and update_device_tree()
ClearDevices ==
    /\ gpc = "clear"
    /\ gpc' = "idle"
    /\ rflink_devices' = <<>>
    /\ cleared' = [at |-> Len(rflink_msg_queue) + (IF proc.at = "idle" THEN 0 ELSE 1),
                   during |-> proc.at \in {"count", "values", "merge"}]
    /\ UNCHANGED <<arg, result, proc, busVars, shutterVars, cfgVars, rflink_msg_queue, plugin_enabled,
                   switch_history, running, ser, thread, join_result,
                   envVars, readerVars, histVars, stats, rx_queue>>

NextReset ==
    \/ \E msg \in DeviceMessages : ProcBegin(msg)
    \/ ProcCount
    \/ ProcValues
    \/ ProcStore
    \/ ProcPlugins
    \/ ResetStats
    \/ ClearDevices

SpecReset == InitDevices /\ [][NextReset]_vars

\* ---------------------------------------------------- the plugin pipeline
\* process_rflink_message called once on arg.msg, with plugin.enabled of the
\* registered plugins set either way and with the plugins of arg.raising
\* raising in process_message; result.val is the log of the plugins invoked
CallPipeline ==
    /\ ~result.done
    /\ LET loop == PluginLoop(PluginOrder, arg.msg, arg.raising, <<>>)
       IN  /\ result' = [done |-> TRUE, val |-> loop.log]
           /\ rflink_msg_queue' = Append(rflink_msg_queue, loop.msg)
    /\ rflink_devices' = UpdateDevices(rflink_devices, arg.msg)
    /\ switch_history' = IF plugin_enabled["Switches & Remotes"]
                            /\ "Switches & Remotes" \notin arg.raising
                         THEN SwitchHistory(switch_history, arg.msg)
                         ELSE switch_history
    /\ UNCHANGED <<arg, procVars, busVars, shutterVars, plugin_enabled, cfgVars, guiVars, envVars, readerVars,
                   histVars, stats, rx_queue>>

\* 20;01;A;_plugin_Weather Sensors=7;TEMP=00c3;
ShadowLine ==
    <<50, 48, 59, 48, 49, 59, 65, 59, 95, 112, 108, 117, 103, 105, 110, 95, 87, 101, 97, 116, 104, 101,
      114, 32, 83, 101, 110, 115, 111, 114, 115, 61, 55, 59, 84, 69, 77, 80, 61, 48, 48, 99, 51, 59>>

PipelineLines ==
    {ShadowLine,
     <<50, 48, 59, 48, 49, 59, 68, 69, 66, 85, 71, 59, 73, 68, 61, 49, 59, 84, 69, 77, 80, 61, 48, 48, 99, 51, 59, 67, 77, 68, 61, 79, 78, 59>>,
     <<50, 48, 59, 48, 49, 59, 65, 59, 73, 68, 61, 49, 59, 84, 69, 77, 80, 61, 48, 48, 99, 51, 59>>,
     <<50, 48, 59, 48, 49, 59, 65, 59, 73, 68, 61, 49, 59, 67, 77, 68, 61, 79, 78, 59>>,
     <<50, 48, 59, 48, 49, 59, 65, 59, 73, 68, 61, 49, 59, 72, 85, 77, 61, 53, 48, 59>>}
PipelineMessages == {parse(l) : l \in PipelineLines}

InitPipeline ==
    /\ InitApp({MODE_RFLINK}, {<<CR, LF>>}, {DefaultTimeout})
    /\ arg \in [msg : PipelineMessages, raising : SUBSET Range(PluginOrder)]
    /\ result = NoCall

\* plugin.enabled is a plain attribute of the plugin object; the host of a
\* plugin sets it
SetEnabled(name, on) ==
    /\ ~result.done
    /\ plugin_enabled[name] # on
    /\ plugin_enabled' = [plugin_enabled EXCEPT ![name] = on]
    /\ UNCHANGED <<callVars, cfgVars, rflink_msg_queue, rflink_devices, switch_history,
                   guiVars, envVars, readerVars, histVars, stats, rx_queue>>

NextPipeline ==
    \/ CallPipeline
    \/ \E name \in Range(PluginOrder), on \in BOOLEAN : SetEnabled(name, on)

SpecPipeline == InitPipeline /\ [][NextPipeline]_vars

\* ------------------------------------------------ BusStatistics on its own
\* An object is built and update is called on it again and again while time
\* passes; arg holds the arguments of the constructor (config) and of every
\* update so far (updates, with the time of the call)
MaxUpdates == 101
MaxClock == 2

\* self.stats.update(byte_count, 0)
CallUpdate(byte_count) ==
    /\ Len(arg.updates) < MaxUpdates
    /\ stats' = StatsUpdate(byte_count)
    /\ bus' = BusUpdate(bus, clock, byte_count)
    /\ arg' = [arg EXCEPT !.updates = Append(@, [ts |-> clock, count |-> byte_count])]
    /\ UNCHANGED <<result, clock, upd, display, zeroed, procVars, shutterVars, cfgVars, rflinkVars, guiVars, envVars,
                   readerVars, histVars, rx_queue>>

\* one second passes
ClockTick ==
    /\ clock < MaxClock
    /\ clock' = clock + 1
    /\ UNCHANGED <<arg, result, bus, upd, display, zeroed, procVars, shutterVars, cfgVars, rflinkVars, guiVars, envVars,
                   readerVars, histVars, stats, rx_queue>>

\* the state after BusStatistics(baudrate, databits, parity, stopbits)
InitStats(baudrates, databits, parities, stopbits) ==
    /\ InitSniffer({MODE_RFLINK}, {<<CR, LF>>}, {DefaultTimeout})
    /\ arg \in [config : [baudrate : baudrates, databits : databits,
                          parity : parities, stopbits : stopbits],
                updates : {<<>>}]
    /\ result = NoCall

BuiltStats ==
    /\ stats = [set |-> TRUE, total_bytes |-> 0, total_frames |-> 0]
    /\ bus = BusStatistics(arg.config.baudrate, arg.config.databits,
                           arg.config.parity, arg.config.stopbits)

InitHistory ==
    /\ InitStats({115200}, {8}, {ParityNone}, {<<1, 1>>})
    /\ BuiltStats

NextHistory ==
    \/ CallUpdate(1)
    \/ ClockTick

SpecHistory == InitHistory /\ [][NextHistory]_vars

\* the load: objects built with each setting, a few updates of 1 or 100 bytes
MaxLoadUpdates == 2
ParityEven == <<69, 118, 101, 110>>   \* "Even"
LoadCounts == {1, 100}

InitLoad ==
    /\ InitStats({9600, 115200}, {7, 8}, {ParityNone, ParityEven},
                 {<<1, 1>>, <<3, 2>>, <<2, 1>>})
    /\ BuiltStats

NextLoad ==
    \/ Len(arg.updates) < MaxLoadUpdates /\ \E n \in LoadCounts : CallUpdate(n)
    \/ ClockTick

SpecLoad == InitLoad /\ [][NextLoad]_vars

\* ----------------------------------- update against the display and reset
\* BusStatistics.update step by step, as the reader runs it while the GUI
\* thread runs update_statistics_display and reset_stats.
MaxRaceUpdates == 2

\* lines 407-413: the totals, the append and the sum over the history
UpdBegin(byte_count) ==
    /\ upd.at = "idle"
    /\ Len(arg.updates) < MaxRaceUpdates
    /\ stats' = StatsUpdate(byte_count)
    /\ LET history == DequeAppend(bus.byte_history, [ts |-> clock, count |-> byte_count])
       IN  /\ bus' = [bus EXCEPT !.byte_history = history]
           /\ upd' = [at |-> "current", recent_bytes |-> RecentBytes(history, clock - Second)]
    /\ arg' = [arg EXCEPT !.updates = Append(@, [ts |-> clock, count |-> byte_count])]
    /\ UNCHANGED <<result, clock, display, zeroed, procVars, shutterVars, cfgVars, rflinkVars, guiVars,
                   envVars, readerVars, histVars, rx_queue>>

\* lines 414-417: current_bytes_per_sec and current_load
UpdCurrent ==
    /\ upd.at = "current"
    /\ bus' = BusCurrent(bus, upd.recent_bytes)
    /\ upd' = [upd EXCEPT !.at = "peaks"]
    /\ UNCHANGED <<arg, result, clock, display, zeroed, procVars, shutterVars, cfgVars, rflinkVars,
                   guiVars, envVars, readerVars, histVars, stats, rx_queue>>

\* lines 419-422: the peaks
UpdPeaks ==
    /\ upd.at = "peaks"
    /\ bus' = BusPeaks(bus)
    /\ upd' = UpdIdle
    /\ UNCHANGED <<arg, result, clock, display, zeroed, procVars, shutterVars, cfgVars, rflinkVars,
                   guiVars, envVars, readerVars, histVars, stats, rx_queue>>

\* update_statistics_display, line 1428: "load = stats.current_load"
ShowLoad ==
    /\ gpc = "idle"
    /\ stats.set
    /\ gpc' = "show"
    /\ display' = [display EXCEPT !.load = bus.current_load, !.complete = FALSE]
    /\ UNCHANGED <<arg, result, procVars, bus, clock, upd, zeroed, shutterVars, cfgVars, rflinkVars,
                   running, ser, thread, join_result, envVars, readerVars, histVars,
                   stats, rx_queue>>

\* update_statistics_display, lines 1440-1445: the other labels
ShowRest ==
    /\ gpc = "show"
    /\ gpc' = "idle"
    /\ display' = [display EXCEPT !.bytes_sec = bus.current_bytes_per_sec,
                                  !.total_bytes = stats.total_bytes,
                                  !.total_frames = stats.total_frames,
                                  !.complete = TRUE]
    /\ UNCHANGED <<arg, result, procVars, bus, clock, upd, zeroed, shutterVars, cfgVars, rflinkVars,
                   running, ser, thread, join_result, envVars, readerVars, histVars,
                   stats, rx_queue>>

NextRace ==
    \/ UpdBegin(1)
    \/ UpdCurrent
    \/ UpdPeaks
    \/ ShowLoad
    \/ ShowRest
    \/ ResetStats
    \/ ClearDevices
    \/ ClockTick

SpecRace == InitHistory /\ [][NextRace]_vars

\* decode_pulses called on its own, up to MaxDecodes times with a result, on
\* trains of pulses: a first sample followed by pairs of pulses, of every
\* length up to MaxPulses for a sync pulse followed by long-short pairs, and
\* around the shortest decodable length for the other beginnings and pairs
MaxPulses == 80
MaxDecodes == 2

CallDecode(pulses) ==
    LET r == decode_pulses(shutter, pulses, clock)
    IN  /\ shutter.decode_count < MaxDecodes
        /\ arg' = pulses
        /\ result' = [done |-> TRUE, val |-> r.cmd]
        /\ shutter' = r.self
        /\ UNCHANGED <<config_file, procVars, busVars, cfgVars, rflinkVars, guiVars,
                       envVars, readerVars, histVars, stats, rx_queue>>

PulseTrain(n, first, pair) ==
    [i \in 1..n |-> IF i = 1 THEN first ELSE pair[1 + (i % 2)]]

PulseTrains ==
    {PulseTrain(n, 2400, <<1050, 450>>) : n \in 0..MaxPulses}
    \cup {PulseTrain(n, first, pair) :
            n \in (MinPulses - 2)..(MinPulses + 1),
            first \in {2400, 3000, 700},
            pair \in {<<1050, 450>>, <<450, 1050>>, <<700, 800>>}}

InitDecode ==
    /\ InitApp({MODE_RFLINK}, {<<CR, LF>>}, {DefaultTimeout})
    /\ arg = <<>>
    /\ result = [done |-> FALSE, val |-> NoCommand]

NextDecode == \E pulses \in PulseTrains : CallDecode(pulses)

SpecDecode == InitDecode /\ [][NextDecode]_vars

\* decode_pulses called once on one train of a set of trains: a beginning
\* (the sync pulse in each of the first places, in and around its range, or
\* missing), data pulses that repeat a pattern of pairs (in and around the
\* ranges of the short and the long pulse), an end (none, or a pause around
\* 5000), cut or filled to a total length around 78 and around 40 pairs
Train(head, pattern, tail, total) ==
    head \o [i \in 1..(total - Len(head) - Len(tail)) |->
                pattern[1 + ((i - 1) % Len(pattern))]] \o tail

TrainHeads ==
    {<<2400>>, <<700, 2400>>, <<2600, 2300>>, <<2600, 700>>, <<2100>>,
     <<700, 700, 700, 700, 2400>>, <<700, 700, 700, 700, 700, 2400>>,
     <<700>>, <<2000>>, <<2199>>, <<2200>>, <<2500>>, <<2501>>}

TrainPatterns ==
    {<<1050, 450>>, <<450, 1050>>,
     <<900, 350, 1200, 600, 350, 900, 600, 1200, 899, 350, 1201, 600,
       900, 349, 900, 601, 350, 899, 600, 1201, 1000, 1000, 300, 200,
       200, 300, 1050, 450, 450, 1050>>}

TrainTails == {<<>>, <<7000>>, <<5000>>, <<4999>>}

TrainTotals == {77, 78, 79, 83, 84, 90}

Trains ==
    {Train(head, pattern, tail, total) :
        head \in TrainHeads, pattern \in TrainPatterns,
        tail \in TrainTails, total \in TrainTotals}

NextPulses == \E pulses \in Trains : ~result.done /\ CallDecode(pulses)

SpecPulses == InitDecode /\ [][NextPulses]_vars

\* generate_pulses called on its own, and decode_pulses called on what it
\* returns, for remote ids at both ends of 24 bits and between, every label
\* from 0 to 15, and the four command names, one in small letters, one
\* unknown and the empty one
CallGenerate ==
    /\ ~result.done
    /\ result' = [done |-> TRUE,
                  val |-> generate_pulses(arg.remote_id, arg.channel, arg.command)]
    /\ UNCHANGED <<arg, procVars, busVars, shutterVars, cfgVars, rflinkVars, guiVars,
                   envVars, readerVars, histVars, stats, rx_queue>>

CallRoundTrip ==
    LET r == decode_pulses(shutter,
                 generate_pulses(arg.remote_id, arg.channel, arg.command), clock)
    IN  /\ ~result.done
        /\ result' = [done |-> TRUE, val |-> r.cmd]
        /\ shutter' = r.self
        /\ UNCHANGED <<arg, config_file, procVars, busVars, cfgVars, rflinkVars, guiVars,
                       envVars, readerVars, histVars, stats, rx_queue>>

N_STOP == <<83, 84, 79, 80>>
N_UP == <<85, 80>>
N_DOWN == <<68, 79, 87, 78>>
N_PROG == <<80, 82, 79, 71>>

RemoteIds == {0, 1, 8388608, 9979418, 16777215}   \* 0x800000, 0x98461A, 0xFFFFFF
Labels == 0..15
CommandNames ==
    {N_STOP, N_UP, N_DOWN, N_PROG,
     <<117, 112>>,              \* "up"
     <<79, 80, 69, 78>>,        \* "OPEN"
     <<>>}

InitEncode ==
    /\ InitApp({MODE_RFLINK}, {<<CR, LF>>}, {DefaultTimeout})
    /\ arg \in [remote_id : RemoteIds, channel : Labels, command : CommandNames]
    /\ result = [done |-> FALSE, val |-> <<>>]

NextEncode == CallGenerate

SpecEncode == InitEncode /\ [][NextEncode]_vars

NextCodec == CallRoundTrip

SpecCodec == InitEncode /\ [][NextCodec]_vars

\* The learn operations, decode_pulses and the construction of a new object
\* (a restart of the program), in any order: up to MaxLearns entries learned,
\* one decode per object.  Under SpecLearn every save is written, under
\* SpecStore a save ends in any of its three outcomes.
MaxLearns == 2

\* learn_remote, learn_channel or learn_command (call.op) with the arguments
\* of call, the save ending in outcome
CallLearn(call, outcome) ==
    LET learned == CASE call.op = "learn_remote" ->
                            learn_remote(shutter, call.remote_id, call.name)
                     [] call.op = "learn_channel" ->
                            learn_channel(shutter, call.remote_id, call.internal, call.label)
                     [] call.op = "learn_command" ->
                            learn_command(shutter, call.bits, call.name)
    IN  /\ shutter' = learned
        /\ config_file' = _save_learned_data(learned, config_file, outcome)
        /\ UNCHANGED <<arg, result, procVars, busVars, cfgVars, rflinkVars, guiVars,
                       envVars, readerVars, histVars, stats, rx_queue>>

\* ShutterRemoteProtocol(): a new object, loaded from the file
NewProtocol ==
    /\ shutter' = _load_learned_data(ShutterRemoteProtocol, config_file)
    /\ UNCHANGED <<config_file, arg, result, procVars, busVars, cfgVars, rflinkVars,
                   guiVars, envVars, readerVars, histVars, stats, rx_queue>>

N_CUSTOM == <<67, 85, 83, 84, 79, 77>>

\* DOWN on channel 4 of remote 0x98461A, STOP on channel 4 of remote 1, UP
\* on channel 0 of remote 1, and 41 long-short pairs (code 0xF)
LearnTrains ==
    {generate_pulses(9979418, 3, N_DOWN), generate_pulses(1, 3, N_STOP),
     generate_pulses(1, 0 - 1, N_UP), Train(<<2400>>, <<1050, 450>>, <<>>, 83)}

LearnBits == {decode_pulses(ShutterRemoteProtocol, t, 0).cmd.raw_bits : t \in LearnTrains}

LearnCalls ==
    {[op |-> "learn_remote", remote_id |-> r, internal |-> 0, label |-> 0,
      bits |-> <<>>, name |-> n] : r \in {9979418, 1}, n \in {N_CUSTOM}}
    \cup {[op |-> "learn_channel", remote_id |-> r, internal |-> i, label |-> l,
           bits |-> <<>>, name |-> <<>>] : r \in {9979418, 1}, i \in {4}, l \in {3, 9}}
    \cup {[op |-> "learn_command", remote_id |-> 0, internal |-> 0, label |-> 0,
           bits |-> b, name |-> n] : b \in LearnBits, n \in {N_CUSTOM, <<117, 112>>}}

\* the number of entries of the three mappings
Entries(self) ==
    Len(self.learned_remotes) + Len(self.learned_commands)
    + Len(self.channel_mapping)

NextLearn ==
    \/ \E call \in LearnCalls :
          Entries(shutter) < MaxLearns /\ CallLearn(call, "written")
    \/ \E pulses \in LearnTrains : shutter.decode_count = 0 /\ CallDecode(pulses)
    \/ NewProtocol

SpecLearn == InitDecode /\ [][NextLearn]_vars

NextStore ==
    \/ \E call \in LearnCalls, outcome \in {"written", "refused", "broken"} :
          Entries(shutter) < MaxLearns /\ CallLearn(call, outcome)
    \/ \E pulses \in LearnTrains : shutter.decode_count = 0 /\ CallDecode(pulses)
    \/ NewProtocol

SpecStore == InitDecode /\ [][NextStore]_vars

\* decode_pulses called over and over: the k-th sequence that decodes carries
\* the remote id k, and the clock moves on by one with every command built
MaxLog == 102

LogTrains ==
    {generate_pulses(clock + 1, (clock + 1) % 15,
                     <<N_STOP, N_UP, N_DOWN, N_PROG>>[1 + (clock % 4)]),
     <<>>, PulseTrain(MinPulses - 1, 2400, <<1050, 450>>),
     PulseTrain(MinPulses + 5, 700, <<1050, 450>>)}

LogDecode(pulses) ==
    \E r \in {decode_pulses(shutter, pulses, clock)} :
        /\ clock < MaxLog
        /\ arg' = pulses
        /\ result' = [done |-> TRUE, val |-> r.cmd]
        /\ shutter' = r.self
        /\ clock' = IF r.cmd.ok THEN clock + 1 ELSE clock
        /\ UNCHANGED <<config_file, procVars, bus, upd, display, zeroed, cfgVars,
                       rflinkVars, guiVars, envVars, readerVars, histVars, stats,
                       rx_queue>>

NextLog == \E pulses \in LogTrains : LogDecode(pulses)

SpecLog == InitDecode /\ [][NextLog]_vars

\* the configuration file as other hands may leave it between two runs: the
\* file written after learn_remote(1, ..) and learn_channel(-1, 4, 3), whose
\* channels key int(k, 16) rejects; a file whose remotes key is rejected; a
\* file cut short; a sound file; no file
StoreFiles ==
    {_save_learned_data(
         learn_channel(learn_command(learn_remote(ShutterRemoteProtocol, 1, N_CUSTOM),
                                     [i \in 1..FrameBits |-> 49], N_CUSTOM),
                       0 - 1, 4, 3),
         NoFile, "written"),
     _save_learned_data(
         learn_channel(learn_remote(ShutterRemoteProtocol, 0 - 1, N_CUSTOM), 1, 4, 3),
         NoFile, "written"),
     _save_learned_data(
         learn_channel(learn_remote(ShutterRemoteProtocol, 1, N_CUSTOM), 1, 4, 3),
         NoFile, "written"),
     [NoFile EXCEPT !.state = "partial"],
     NoFile}

\* the file is replaced while no object uses it
FileEdited(file) ==
    /\ config_file # file
    /\ config_file' = file
    /\ UNCHANGED <<shutter, arg, result, procVars, busVars, cfgVars, rflinkVars,
                   guiVars, envVars, readerVars, histVars, stats, rx_queue>>

NextReload ==
    \/ \E file \in StoreFiles : FileEdited(file)
    \/ NewProtocol
    \/ \E call \in LearnCalls, outcome \in {"written", "refused", "broken"} :
          Entries(shutter) < MaxLearns /\ CallLearn(call, outcome)

SpecReload == InitDecode /\ [][NextReload]_vars

\* SnifferGUI.poll_queues, run by the GUI thread every 100 ms: up to 100
\* records are taken from rx_queue in queue order and shown, then the
\* statistics labels are set while the sniffer runs.  (msg_queue belongs to
\* the GUI itself; the text widget and the device tree are not followed.)
PollBatch == 100

PollQueues ==
    /\ gpc = "idle"
    /\ rx_queue' = From(rx_queue, Min(PollBatch, Len(rx_queue)))
    /\ display' = IF running /\ stats.set
                  THEN [load |-> bus.current_load,
                        bytes_sec |-> bus.current_bytes_per_sec,
                        total_bytes |-> stats.total_bytes,
                        total_frames |-> stats.total_frames,
                        complete |-> TRUE]
                  ELSE display
    /\ UNCHANGED <<arg, result, procVars, bus, clock, upd, zeroed, shutterVars, cfgVars,
                   rflinkVars, guiVars, envVars, readerVars, histVars, stats>>

\* the reader in line mode and the polling GUI: both keep running
PollStream == 4

ReaderLines(t) ==
    \/ ReaderCore(t)
    \/ ReaderModeLine(t)
    \/ ReaderLine(t)

NextPoll ==
    \/ Start
    \/ \E b \in LineBytes : arrived < PollStream /\ Arrive(b)
    \/ \E t \in Threads : ReaderLines(t)
    \/ PollQueues

SpecPoll ==
    /\ InitLine
    /\ [][NextPoll]_vars
    /\ WF_vars(PollQueues)
    /\ \A t \in Threads : WF_vars(ReaderLines(t))

\* set_delimiter called over and over with texts over the digits 4 and 1,
\* the letters a and G, the space and the tab
MaxHex == 3

HexTexts ==
    UNION {[1..n -> {52, 49, 97, 71, SP, TAB}] : n \in 0..MaxHex}

CallSetDelimiter(hexstr) ==
    /\ arg' = hexstr
    /\ result' = [done |-> TRUE, val |-> set_delimiter(hexstr).ok]
    /\ delimiter' = set_delimiter(hexstr).delimiter
    /\ UNCHANGED <<procVars, busVars, shutterVars, frame_mode, timeout_ms, show_hex,
                   show_ascii, rflinkVars, guiVars, envVars, readerVars, histVars,
                   stats, rx_queue>>

InitSetter == InitWith({MODE_DELIMITER}, {<<LF>>}, {DefaultTimeout})

NextSetter == \E hexstr \in HexTexts : CallSetDelimiter(hexstr)

SpecSetter == InitSetter /\ [][NextSetter]_vars

\* One reader from start() to its end under a configuration that nothing
\* changes: each of the four framing modes, a one-byte delimiter and one that
\* overlaps itself, every stream over a data byte and the delimiter byte in
\* every chunking into reads. The reader ends by stop() (the join waits for
\* it) or by a failing read.
FramingModes == {MODE_RAW, MODE_DELIMITER, MODE_TIMEOUT, MODE_BOTH}
FramingDelims == {<<LF>>, <<LF, LF>>}
FramingBytes == {65, LF}

InitFraming == InitWith(FramingModes, FramingDelims, {1})

NextFraming ==
    \/ thread = 0 /\ Start
    \/ StopBegin
    \/ StopJoinEnded
    \/ StopClose
    \/ StopRelease
    \/ \E b \in FramingBytes : arrived < FramingStream /\ Arrive(b)
    \/ Tick
    \/ \E t \in Threads : ReaderCore(t)
    \/ \E t \in Threads : ReaderModes(t)
    \/ \E t \in Threads : ReaderDelim(t)
    \/ \E t \in Threads : ReaderReadError(t)
    \/ \E t \in Threads : ReaderFlush(t)

SpecFraming == InitFraming /\ [][NextFraming]_vars

\* format_value called on its own: on TEMP with every value of 16 bits, and
\* on each field of the message parsed from the line
\* 20;03;Cresta;ID=8301;TEMP=00c3;HUM=50;BAT=OK;
CallFormatValue ==
    /\ ~result.done
    /\ result' = [done |-> TRUE, val |-> format_value(arg.field_type, arg.raw_value)]
    /\ UNCHANGED <<arg, procVars, busVars, shutterVars, cfgVars, rflinkVars, guiVars, envVars, readerVars, histVars,
                   stats, rx_queue>>

CrestaLine ==
    <<50, 48, 59, 48, 51, 59, 67, 114, 101, 115, 116, 97, 59, 73, 68,
      61, 56, 51, 48, 49, 59, 84, 69, 77, 80, 61, 48, 48, 99, 51,
      59, 72, 85, 77, 61, 53, 48, 59, 66, 65, 84, 61, 79, 75, 59>>

CrestaMessage == parse(CrestaLine)

FormatArgs ==
    {[field_type |-> K_TEMP, raw_value |-> IntV(r)] : r \in 0..(2 * SignBit - 1)}
    \cup {[field_type |-> f.k, raw_value |-> f.v] : f \in Range(CrestaMessage.fields)}

InitFormat ==
    /\ InitApp({MODE_RFLINK}, {<<CR, LF>>}, {DefaultTimeout})
    /\ arg \in FormatArgs
    /\ result = NoCall

NextFormat == CallFormatValue

SpecFormat == InitFormat /\ [][NextFormat]_vars

\* format_value on each of the three fields of type "temp" of
\* RFLinkFieldType, with every value of 16 bits
K_WINCHL == <<87, 73, 78, 67, 72, 76>>      \* "WINCHL"
K_WINTMP == <<87, 73, 78, 84, 77, 80>>      \* "WINTMP"
TempFields == {K_TEMP, K_WINCHL, K_WINTMP}

TempArgs ==
    {[field_type |-> k, raw_value |-> IntV(r)] : k \in TempFields, r \in 0..(2 * SignBit - 1)}

InitTemp ==
    /\ InitApp({MODE_RFLINK}, {<<CR, LF>>}, {DefaultTimeout})
    /\ arg \in TempArgs
    /\ result = NoCall

SpecTemp == InitTemp /\ [][NextFormat]_vars

\* Raw mode.
RawBytes == {65, LF}

InitRaw == InitWith({MODE_RAW}, {<<CR, LF>>}, {DefaultTimeout})

NextRaw ==
    \/ Start
    \/ \E b \in RawBytes : Arrive(b)
    \/ \E t \in Threads : ReaderCore(t)

SpecRaw == InitRaw /\ [][NextRaw]_vars

\* the steps of stop()
Stop ==
    \/ StopBegin
    \/ StopJoinEnded
    \/ StopJoinTimeout
    \/ StopClose
    \/ StopRelease

\* Delimiter mode (delimiter 0A) with start, stop and a failing port.
StopBytes == {65, LF}

InitStop == InitWith({MODE_DELIMITER}, {<<LF>>}, {DefaultTimeout})

NextStop ==
    \/ Start
    \/ Stop
    \/ \E b \in StopBytes : arrived < StopStream /\ Arrive(b)
    \/ \E t \in Threads : ReaderCore(t)
    \/ \E t \in Threads : ReaderModes(t)
    \/ \E t \in Threads : ReaderDelim(t)
    \/ \E t \in Threads : ReaderReadError(t)
    \/ \E t \in Threads : ReaderFlush(t)

SpecStop == InitStop /\ [][NextStop]_vars

\* The GUI changes mode, delimiter and timeout while the reader runs, and
\* stops it; every join returns because the reader has ended.
GuiModes == {MODE_RAW, MODE_DELIMITER, MODE_TIMEOUT}
GuiDelimiters == {<<52, 49>>}   \* "41"
GuiTimeouts == {2}
GuiBytes == {65, LF}

InitGui == InitWith({MODE_DELIMITER}, {<<LF>>}, {1})

NextGui ==
    \/ Start
    \/ StopBegin
    \/ StopJoinEnded
    \/ StopClose
    \/ StopRelease
    \/ \E mode \in GuiModes : SetMode(mode)
    \/ \E hexstr \in GuiDelimiters : SetDelimiter(hexstr)
    \/ \E ms \in GuiTimeouts : SetTimeout(ms)
    \/ \E b \in GuiBytes : arrived < GuiStream /\ Arrive(b)
    \/ Tick
    \/ \E t \in Threads : ReaderCore(t)
    \/ \E t \in Threads : ReaderModes(t)
    \/ \E t \in Threads : ReaderDelim(t)
    \/ \E t \in Threads : ReaderFlush(t)

SpecGui == InitGui /\ [][NextGui]_vars

\* ------------------------------------------------------------------ claims
\* reader t has framed everything it has read
Settled(t) == pc[t] \in {"loop", "check", "read"}

\* the byte values of the frame records put so far, in put order
FrameData == [i \in 1..Len(rx_queue) |-> Val(rx_queue[i].bytes)]

\* stream = f1 \o delim \o f2 \o delim \o partial with Len(f1) = i, Len(f2) = j
HasForm(stream, delim, i, j) ==
    /\ Len(stream) >= i + j + 2 * Len(delim)
    /\ SubSeq(stream, i + 1, i + Len(delim)) = delim
    /\ SubSeq(stream, i + Len(delim) + j + 1, i + j + 2 * Len(delim)) = delim
    /\ ~PyIn(delim, SubSeq(stream, 1, i))
    /\ ~PyIn(delim, SubSeq(stream, i + Len(delim) + 1, i + Len(delim) + j))
    /\ ~PyIn(delim, From(stream, i + j + 2 * Len(delim)))

\* what the claim says the reader has done with such a stream
FramedAs(t, stream, delim, i, j) ==
    /\ FrameData = <<SubSeq(stream, 1, i + Len(delim)),
                     SubSeq(stream, i + Len(delim) + 1, i + j + 2 * Len(delim))>>
    /\ \A k \in 1..Len(rx_queue) : rx_queue[k].kind = "frame" /\ ~rx_queue[k].incomplete
    /\ Val(buffer[t]) = From(stream, i + j + 2 * Len(delim))

\* the delimiter occurs in frame \o delim only at its end, for both frames
EndsOnly(stream, delim, i, j) ==
    /\ PyFind(SubSeq(stream, 1, i + Len(delim)), delim) = i
    /\ PyFind(SubSeq(stream, i + Len(delim) + 1, i + j + 2 * Len(delim)), delim) = j

\* C1 as stated: in delimiter mode, whenever the bytes read so far are
\* frame1, delimiter, frame2, delimiter, partial, with no delimiter inside
\* frame1, frame2 or partial, and the reader has framed them (whatever the
\* reads were), the records put are exactly frame1+delimiter and
\* frame2+delimiter, in that order, and partial is the buffer.
C1_AsStated ==
    \A t \in Threads : \A i, j \in 0..MaxStream :
        (Settled(t) /\ HasForm(Val(received), delimiter, i, j))
            => FramedAs(t, Val(received), delimiter, i, j)

\* C1, amended: the same, for streams in which the delimiter does not occur
\* in frame1+delimiter or frame2+delimiter before its end (always so for a
\* one-byte delimiter and for 0D 0A, not for a delimiter such as 0A 0A after
\* a frame that ends in 0A).
C1_DelimiterFraming ==
    \A t \in Threads : \A i, j \in 0..MaxStream :
        (/\ Settled(t)
         /\ HasForm(Val(received), delimiter, i, j)
         /\ EndsOnly(Val(received), delimiter, i, j))
            => FramedAs(t, Val(received), delimiter, i, j)

\* C1 witness: two non-empty frames and a non-empty partial have been read
\* and framed
C1_Witness ==
    \E i, j \in 1..MaxStream :
        /\ Settled(1)
        /\ HasForm(Val(received), delimiter, i, j)
        /\ EndsOnly(Val(received), delimiter, i, j)
        /\ Len(received) > i + j + 2 * Len(delimiter)
        /\ Len(rx_queue) = 2

\* the reception positions of the bytes of record i of rx_queue
RecordPos(i) == Pos(rx_queue[i].bytes)

\* the frame records whose last byte is the byte received as number n
FramesEndingAt(n) ==
    {i \in 1..Len(rx_queue) :
        /\ rx_queue[i].kind = "frame"
        /\ rx_queue[i].bytes # <<>>
        /\ RecordPos(i)[Len(RecordPos(i))] = n}

\* record i carries exactly the bytes received after the previous record's
\* last byte (after the start of the stream for the first record), up to n
CarriesAllUpTo(i, n) ==
    LET first == IF i = 1 THEN 1
                 ELSE RecordPos(i - 1)[Len(RecordPos(i - 1))] + 1
    IN  RecordPos(i) = [k \in 1..(n - first + 1) |-> first + k - 1]

\* C2, first half: a frame is put only at a gap of at least timeout_ms (the
\* byte read next comes after such a gap, or the line has been silent for
\* that long)
C2_NoEarlyFlush ==
    \A i \in 1..Len(rx_queue) :
        LET n == RecordPos(i)[Len(RecordPos(i))]
        IN  IF n < Len(received) THEN received[n + 1].g >= timeout_ms
            ELSE quiet >= timeout_ms

\* C2, second half: a byte read after a gap of at least timeout_ms finds
\* exactly one frame put for that gap, with all the bytes buffered before it
C2_GapFlushes ==
    \A k \in 2..Len(received) :
        received[k].g >= timeout_ms =>
            /\ Cardinality(FramesEndingAt(k - 1)) = 1
            /\ \A i \in FramesEndingAt(k - 1) : CarriesAllUpTo(i, k - 1)

\* C2 as stated: in timeout mode no frame is put while every gap between
\* bytes is below timeout_ms, and every gap of at least timeout_ms after
\* buffered bytes has exactly one frame, with all the bytes before the gap and
\* none of the bytes after it.
C2_AsStated == C2_NoEarlyFlush /\ C2_GapFlushes

\* the reception positions of the bytes of all the records of rx_queue, in
\* queue order
RECURSIVE QueuePos(_)
QueuePos(n) == IF n = 0 THEN <<>> ELSE QueuePos(n - 1) \o RecordPos(n)

\* C3 as stated: the bytes carried by the records of rx_queue, the shutdown
\* flush included, are in queue order in the order in which they were
\* received, also when the GUI changes mode, delimiter or timeout while the
\* reader runs.
C3_AsStated ==
    \A i, j \in 1..Len(QueuePos(Len(rx_queue))) :
        i < j => QueuePos(Len(rx_queue))[i] < QueuePos(Len(rx_queue))[j]

\* the records marked incomplete
FlushRecords == {i \in 1..Len(rx_queue) : rx_queue[i].incomplete}

\* the reader threads that have ended, and those among them whose loop ended
\* at its condition or at a break
Ended(t) == pc[t] \in {"done", "crashed"}
LoopLeft(t) == pc[t] = "done"

\* what the claim says of a set of ended readers: each non-empty residual
\* buffer is in exactly one incomplete record, whole, and there is no other
\* incomplete record
FlushedOnce(T) ==
    /\ \A t \in T :
          buffer[t] # <<>> =>
              Cardinality({i \in FlushRecords : rx_queue[i].bytes = buffer[t]}) = 1
    /\ Cardinality(FlushRecords) = Cardinality({t \in T : buffer[t] # <<>>})

\* C4 as stated: when the reader loop has ended with a non-empty residual
\* buffer, exactly one record marked incomplete carries the whole buffer;
\* with an empty buffer there is none; no buffered byte is dropped at
\* shutdown.
C4_AsStated == FlushedOnce({t \in Threads : Ended(t)})

\* C4 for the readers that left the loop at "while self.running" or at a
\* break: what remains true of the flush block
C4_FlushBlock ==
    \A t \in Threads :
        (LoopLeft(t) /\ buffer[t] # <<>>) =>
            Cardinality({i \in FlushRecords : rx_queue[i].bytes = buffer[t]}) = 1

\* C5 as stated: whenever a reader puts its shutdown flush record, stop() has
\* not yet closed the port or set ser to None, also when the join timed out.
C5_AsStated ==
    [][\A t \in Threads :
          (pc[t] = "flush" /\ pc'[t] = "done" /\ buffer[t] # <<>>) => ser = "open"]_vars

\* the bytes read by the readers 1..n that they have not framed yet
RECURSIVE Pending(_)
Pending(n) ==
    IF n = 0 THEN 0
    ELSE Pending(n - 1) + (IF pc[n] = "frame" THEN Len(data[n]) ELSE 0)

\* C6: in raw mode the accumulation buffer stays empty, and the records put
\* are one-byte frames, one for every byte read except the bytes of a read
\* whose frames the reader is about to put, with the bytes in the order in
\* which they were received; total_frames counts them.
C6_RawFrames ==
    /\ \A t \in Threads : buffer[t] = <<>>
    /\ Len(rx_queue) + Pending(MaxThreads) = Len(received)
    /\ \A i \in 1..Len(rx_queue) :
          /\ rx_queue[i] = format_frame(<<received[i]>>, FALSE)
          /\ rx_queue[i].len = 1
    /\ stats.set => stats.total_frames = Len(rx_queue)

\* C6 witness: a read of two bytes or more has been put as one-byte frames
\* after an earlier read
C6_Witness ==
    /\ pc[1] = "loop"
    /\ Len(data[1]) >= 2
    /\ Len(rx_queue) > Len(data[1])
    /\ Len(rx_queue) = Len(received)

\* a non-empty buffer of reader t is emptied in the end
EventuallyEmitted(t) == (buffer[t] # <<>>) ~> (buffer[t] = <<>>)

\* a step that empties the buffer of reader t puts the whole buffer as one
\* frame
EmittedWhole(t) ==
    (buffer[t] # <<>> /\ buffer'[t] = <<>>) =>
        rx_queue' = Append(rx_queue, format_frame(buffer[t], FALSE))

\* no frame holds the delimiter before its last bytes (the delimiter search
\* has run on the buffer before the timeout rule puts it)
DelimiterSearchedFirst ==
    \A i \in 1..Len(rx_queue) :
        PyFind(FrameData[i], delimiter) \in {-1, Len(FrameData[i]) - Len(delimiter)}

\* C7: in timeout mode and in combined mode a non-empty buffer is emitted in
\* the end (time passing, the reader taking its passes): the buffer becomes
\* empty, and the step that empties it puts the whole buffer as one frame; in
\* combined mode the delimiter search comes before the timeout rule, so no
\* frame put has a delimiter inside.
C7_EventuallyEmitted ==
    /\ \A t \in Threads : EventuallyEmitted(t)
    /\ [][\A t \in Threads : EmittedWhole(t)]_vars
    /\ [](frame_mode = MODE_BOTH => DelimiterSearchedFirst)

\* C7 witness: in combined mode a frame was cut at its delimiter and the
\* delimiter-less tail that followed has been put by the timeout rule
C7_Witness ==
    /\ frame_mode = MODE_BOTH
    /\ Len(rx_queue) = 2
    /\ PyFind(FrameData[1], delimiter) = Len(FrameData[1]) - Len(delimiter)
    /\ ~PyIn(delimiter, FrameData[2])
    /\ buffer[1] = <<>>
    /\ Len(received) = Len(FrameData[1]) + Len(FrameData[2])

\* the terminated lines of a stream of received bytes, each with its
\* terminator, and the bytes after the last terminator
RECURSIVE LinesOf(_)
LinesOf(stream) ==
    LET ends == {i \in 1..Len(stream) : stream[i].v = LF}
    IN  IF ends = {} THEN <<>>
        ELSE <<SubSeq(stream, 1, SetMin(ends))>> \o LinesOf(From(stream, SetMin(ends)))

RestOf(stream) ==
    LET ends == {i \in 1..Len(stream) : stream[i].v = LF}
    IN  IF ends = {} THEN stream ELSE From(stream, SetMax(ends))

\* the lines that are not empty once decoded and trimmed
TextLines(stream) == SelectSeq(LinesOf(stream), LAMBDA l : LineStr(l) # <<>>)

\* record r is the one record of line l: the formatted message if the line
\* parses, the RAW record with the line text if not
RecordOfLine(r, l) ==
    /\ r.bytes = l
    /\ IF parse(LineStr(l)).ok
       THEN r.kind = "rflink" /\ r.msg.raw = LineStr(l)
       ELSE r.kind = "raw" /\ r.text = LineStr(l)

\* the messages handed on by the parser are those of the rflink records
ParsedOnce ==
    LET shown == SelectSeq(rx_queue, LAMBDA r : r.kind = "rflink")
    IN  /\ Len(rflink_msg_queue) = Len(shown)
        /\ \A i \in 1..Len(shown) : rflink_msg_queue[i] = shown[i].msg

\* C8: in line mode, once the reader has framed what it read, rx_queue holds
\* one record for every terminated line (\r\n or \n, terminator included in
\* the cut) that is not empty after trimming, in line order, the formatted
\* message if the line parses and the RAW record with the line text if not;
\* each parsed line was handed on once; the bytes after the last terminator
\* are the buffer.
C8_LineFraming ==
    \A t \in Threads :
        (Settled(t) /\ received # <<>>) =>
            /\ Len(rx_queue) = Len(TextLines(received))
            /\ \A i \in 1..Len(rx_queue) :
                  RecordOfLine(rx_queue[i], TextLines(received)[i])
            /\ ParsedOnce
            /\ buffer[t] = RestOf(received)

\* C8 witness: a line that parses and a \r\n-terminated line that does not
\* have been read and put, in that order or the other
C8_Witness ==
    /\ Settled(1)
    /\ Len(rx_queue) = 2
    /\ {rx_queue[1].kind, rx_queue[2].kind} = {"rflink", "raw"}
    /\ \E i \in 1..2 : PyIn(<<CR, LF>>, Val(rx_queue[i].bytes))
    /\ Len(rflink_msg_queue) = 1

\* the fields of the line parse was called on, after trimming
ArgParts == PySplit(PyStrip(arg), SEMI)

\* C9 as stated: parse returns a message only for a line with at least three
\* fields whose first three (node, sequence, protocol) are all non-empty, and
\* returns none for any other line.
C9_AsStated ==
    result.done =>
        (result.val.ok <=>
            /\ Len(ArgParts) >= 3
            /\ \A i \in 1..3 : ArgParts[i] # <<>>)

\* what parse does: a message exactly for a line that is not blank and has
\* at least three fields, empty or not
C9_ThreeFields ==
    result.done =>
        (result.val.ok <=> (PyStrip(arg) # <<>> /\ Len(ArgParts) >= 3))

\* the segments of the line that have a "=", and the key and the value text
\* of such a segment
ArgSegments == {i \in 4..Len(ArgParts) : EQ \in Range(ArgParts[i])}
SegKey(i) == SubSeq(ArgParts[i], 1, PyFind(ArgParts[i], <<EQ>>))
SegValue(i) == From(ArgParts[i], PyFind(ArgParts[i], <<EQ>>) + 1)

\* segment i is the last one with its key
LastOfKey(i) == \A j \in ArgSegments : SegKey(j) = SegKey(i) => j <= i

IsTempText(text) ==
    LET body == SubSeq(text, 1, Len(text) - 2)
        whole == SubSeq(body, IF body[1] = 45 THEN 2 ELSE 1, Len(body) - 2)
    IN  /\ Len(text) >= 5
        /\ SubSeq(text, Len(text) - 1, Len(text)) = <<176, 67>>
        /\ body[Len(body) - 1] = 46
        /\ DigitVal(body[Len(body)]) < 10
        /\ whole # <<>>
        /\ \A i \in 1..Len(whole) : DigitVal(whole[i]) < 10
        /\ Len(whole) > 1 => whole[1] # 48

\* the number such a text shows, in tenths
TenthsShown(text) ==
    LET body == SubSeq(text, 1, Len(text) - 2)
        whole == SubSeq(body, IF body[1] = 45 THEN 2 ELSE 1, Len(body) - 2)
        size == 10 * DigitsValue(whole, 10, 0) + DigitVal(body[Len(body)])
    IN  IF body[1] = 45 THEN 0 - size ELSE size

\* the temperature of a raw value of 16 bits, in tenths: raw with bit 15
\* clear, minus the low 15 bits with bit 15 set
ExpectedTenths(raw) == IF raw < SignBit THEN raw ELSE 0 - (raw - SignBit)

\* the call was format_value(field_type, an int)
Formatted(field_type, i) ==
    result.done /\ arg = [field_type |-> field_type, raw_value |-> IntV(i)]

\* C11: format_value("TEMP", raw) for raw in 0..0xFFFF is raw/10 with one
\* decimal and the suffix °C when bit 15 is clear and -(raw & 0x7FFF)/10 when
\* it is set; the line 20;03;Cresta;ID=8301;TEMP=00c3;HUM=50;BAT=OK; parses to
\* protocol Cresta, ID 0x8301, TEMP 195, HUM 50, shown as 19.5°C and 50%, and
\* raw 0x80DC is shown as -22.0°C.
C11_Temperature ==
    /\ (result.done /\ arg.field_type = K_TEMP) =>
          /\ IsTempText(result.val)
          /\ TenthsShown(result.val) = ExpectedTenths(arg.raw_value.i)
          /\ (result.val[1] = 45) <=> (ExpectedTenths(arg.raw_value.i) < 0)
    /\ Formatted(K_TEMP, 195) => result.val = <<49, 57, 46, 53>> \o <<176, 67>>
    /\ Formatted(K_TEMP, 32988) => result.val = <<45, 50, 50, 46, 48>> \o <<176, 67>>
    /\ Formatted(K_HUM, 50) => result.val = <<53, 48, 37>>
    /\ Formatted(K_ID, 33537) => result.val = <<48, 120, 56, 51, 48, 49>>
    /\ CrestaMessage.ok
    /\ CrestaMessage.protocol = <<67, 114, 101, 115, 116, 97>>
    /\ DictGet(CrestaMessage.fields, K_ID) = IntV(33537)
    /\ DictGet(CrestaMessage.fields, K_TEMP) = IntV(195)
    /\ DictGet(CrestaMessage.fields, K_HUM) = IntV(50)

\* C11 witness: raw 0x80DC has been formatted
C11_Witness ==
    /\ Formatted(K_TEMP, 32988)
    /\ result.val[1] = 45

\* the key a message's device is stored under
KeyOf(msg) == unique_id(msg.protocol, FieldStr(msg, K_ID), FieldStr(msg, K_SWITCH))

\* the positions in arg of the messages with an ID stored under key
MessagesFor(key) ==
    {i \in 1..Len(arg) : DictHas(arg[i].fields, K_ID) /\ KeyOf(arg[i]) = key}

\* values is the right-biased merge of the fields of the messages at the
\* positions S, ID and SWITCH left out
MergedOver(S, values) ==
    LET Carriers(f) == {i \in S : DictHas(arg[i].fields, f)}
    IN  /\ \A f \in DictKeys(values) : f \notin {K_ID, K_SWITCH} /\ Carriers(f) # {}
        /\ \A i \in S : \A f \in DictKeys(arg[i].fields) \ {K_ID, K_SWITCH} :
              /\ DictHas(values, f)
              /\ DictGet(values, f) = DictGet(arg[SetMax(Carriers(f))].fields, f)
        /\ Cardinality(DictKeys(values)) = Len(values)

TempLine == <<50, 48, 59, 48, 49, 59, 65, 59, 73, 68, 61, 49, 59, 84, 69, 77, 80, 61, 48, 48, 99, 51, 59>>
HumLine == <<50, 48, 59, 48, 49, 59, 65, 59, 73, 68, 61, 49, 59, 72, 85, 77, 61, 53, 48, 59>>
TempMessage == parse(TempLine)
HumMessage == parse(HumLine)

\* C12: after any sequence of messages carrying an ID, with no reset, the
\* device stored under an identity has message_count equal to the number of
\* messages processed for that identity and values equal to the right-biased
\* merge of their fields without ID and SWITCH; {TEMP:195} then {HUM:50} gives
\* {TEMP:195, HUM:50} with count 2.
C12_CountAndMerge ==
    /\ \A i \in 1..Len(arg) :
          DictHas(arg[i].fields, K_ID) => DictHas(rflink_devices, KeyOf(arg[i]))
    /\ \A j \in 1..Len(rflink_devices) :
          /\ MessagesFor(rflink_devices[j].k) # {}
          /\ rflink_devices[j].v.message_count = Cardinality(MessagesFor(rflink_devices[j].k))
          /\ MergedOver(MessagesFor(rflink_devices[j].k), rflink_devices[j].v.values)
    /\ Cardinality(DictKeys(rflink_devices)) = Len(rflink_devices)
    /\ arg = <<TempMessage, HumMessage>> =>
          /\ DictGet(rflink_devices, KeyOf(arg[1])).message_count = 2
          /\ DictGet(rflink_devices, KeyOf(arg[1])).values
                 = <<[k |-> K_TEMP, v |-> IntV(195)], [k |-> K_HUM, v |-> IntV(50)]>>

\* C12 witness: {TEMP:195} then {HUM:50} for one identity have been processed
C12_Witness ==
    /\ arg = <<TempMessage, HumMessage>>
    /\ DictGet(rflink_devices, KeyOf(arg[1])).message_count = 2
    /\ DictKeys(DictGet(rflink_devices, KeyOf(arg[1])).values) = {K_TEMP, K_HUM}

\* the positions in arg of the messages passed since the registry was last
\* cleared whose device has been stored
StoredSinceClear ==
    {i \in (cleared.at + 1)..Len(arg) :
        i < Len(arg) \/ proc.at \in {"idle", "plugins"}}

\* the message that was under way when the registry was cleared, once stored
StoredAcrossClear ==
    {i \in {cleared.at} :
        cleared.during /\ (i < Len(arg) \/ proc.at \in {"idle", "plugins"})}

\* device (stored under key) is what the messages at the positions S give:
\* counted from 1, values merged from them alone
BuiltFrom(S, key, device) ==
    LET for == {i \in S : DictHas(arg[i].fields, K_ID) /\ KeyOf(arg[i]) = key}
    IN  /\ for # {}
        /\ device.message_count = Cardinality(for)
        /\ MergedOver(for, device.values)

\* C13: reset is atomic with respect to the reader's update: in every
\* interleaving of reset_stats with process_rflink_message, once the reset has
\* returned the registry holds only devices built from messages processed
\* after it (the message under way during the reset counted as before or as
\* after it), each counted from 1 and with no values from before, and the
\* reader never fails on a key the reset removed.
C13_AsStated ==
    /\ proc.at # "raised"
    /\ cleared.at >= 0 =>
          \A j \in 1..Len(rflink_devices) :
              \/ BuiltFrom(StoredSinceClear, rflink_devices[j].k, rflink_devices[j].v)
              \/ BuiltFrom(StoredSinceClear \cup StoredAcrossClear,
                           rflink_devices[j].k, rflink_devices[j].v)

\* the names of s that satisfy keep, in the order of s
RECURSIVE Filtered(_, _)
Filtered(s, keep) ==
    IF s = <<>> THEN <<>>
    ELSE IF Head(s) \in keep THEN <<Head(s)>> \o Filtered(Tail(s), keep)
    ELSE Filtered(Tail(s), keep)

EnabledPlugins == {name \in Range(PluginOrder) : plugin_enabled[name]}

\* C14: plugin failure is isolated: for every message and every subset of
\* enabled plugins that raise, each other enabled plugin is still invoked
\* exactly once in registration order, its result is still merged, the message
\* is put exactly once on rflink_msg_queue, and disabled plugins are never
\* invoked.
C14_FailureIsolated ==
    result.done =>
        /\ result.val = Filtered(PluginOrder, EnabledPlugins)
        /\ Len(rflink_msg_queue) = 1
        /\ rflink_msg_queue[1].raw = arg.msg.raw
        /\ \A name \in EnabledPlugins \ arg.raising :
               PluginResult(name, arg.msg) # {} =>
                   /\ DictHas(rflink_msg_queue[1].fields, PluginKey(name))
                   /\ DictGet(rflink_msg_queue[1].fields, PluginKey(name))
                          = DictV(PluginResult(name, arg.msg))
        /\ \A name \in Range(PluginOrder) \ (EnabledPlugins \ arg.raising) :
               IF DictHas(arg.msg.fields, PluginKey(name))
               THEN DictGet(rflink_msg_queue[1].fields, PluginKey(name))
                        = DictGet(arg.msg.fields, PluginKey(name))
               ELSE ~DictHas(rflink_msg_queue[1].fields, PluginKey(name))

\* C14 witness: the first plugin raised, the second is disabled, and the third
\* was invoked after the failure and its result merged
C14_Witness ==
    /\ result.done
    /\ arg.raising = {"Weather Sensors"}
    /\ EnabledPlugins = {"Weather Sensors", "Debug Output"}
    /\ result.val = <<"Weather Sensors", "Debug Output">>
    /\ DictHas(rflink_msg_queue[1].fields, PluginKey("Debug Output"))

\* C15: plugin output never shadows a wire field: after the pipeline has run,
\* every key that came from the wire still maps to the value the parser
\* decoded, and every key the pipeline added is "_plugin_" + plugin name and
\* was not a wire key of the message.
C15_AsStated ==
    result.done =>
        /\ \A k \in DictKeys(arg.msg.fields) :
               /\ DictHas(rflink_msg_queue[1].fields, k)
               /\ DictGet(rflink_msg_queue[1].fields, k) = DictGet(arg.msg.fields, k)
        /\ \A k \in DictKeys(rflink_msg_queue[1].fields) \ DictKeys(arg.msg.fields) :
               \E name \in Range(PluginOrder) : k = PluginKey(name)

\* an update has just been made: no time has passed since the last one
JustUpdated ==
    /\ arg.updates # <<>>
    /\ arg.updates[Len(arg.updates)].ts = clock

\* the updates of the last second
LastSecond == {i \in 1..Len(arg.updates) : arg.updates[i].ts >= clock - Second}

RECURSIVE SumCounts(_)
SumCounts(S) ==
    IF S = {} THEN 0
    ELSE LET i == CHOOSE x \in S : TRUE
         IN  arg.updates[i].count + SumCounts(S \ {i})

\* C16: after every update, current_bytes_per_sec is the sum of the byte
\* counts of all updates with a timestamp within the last second, for any
\* number and rate of updates inside that second, and the history retains
\* every sample of the last second.
C16_AsStated ==
    JustUpdated =>
        /\ bus.current_bytes_per_sec = SumCounts(LastSecond)
        /\ \A ts \in 0..clock :
               ts >= clock - Second =>
                   Cardinality({i \in 1..Len(bus.byte_history) : bus.byte_history[i].ts = ts})
                       = Cardinality({i \in 1..Len(arg.updates) : arg.updates[i].ts = ts})

\* C17: after every update the history contains only samples newer than
\* now - 1 s; no sample older than one second remains stored.
C17_AsStated ==
    JustUpdated =>
        \A i \in 1..Len(bus.byte_history) : bus.byte_history[i].ts >= clock - Second

RECURSIVE GCD(_, _)
GCD(a, b) == IF b = 0 THEN a ELSE GCD(b, a % b)

\* a fraction in lowest terms
Lowest(f) == <<f[1] \div GCD(f[1], f[2]), f[2] \div GCD(f[1], f[2])>>

\* twice the number of stop bits
StopHalves(stopbits) ==
    CASE stopbits = <<1, 1>> -> 2
      [] stopbits = <<3, 2>> -> 3
      [] stopbits = <<2, 1>> -> 4

\* bits_per_byte = 1 + data_bits + (1 if parity is enabled else 0) + stop_bits,
\* and after every update current_load * baudrate
\* = current_bytes_per_sec * bits_per_byte * 100
LoadFormula ==
    /\ 2 * bus.bits_per_byte[1]
           = bus.bits_per_byte[2]
               * (2 * (1 + arg.config.databits
                         + (IF arg.config.parity = ParityNone THEN 0 ELSE 1))
                  + StopHalves(arg.config.stopbits))
    /\ JustUpdated =>
           LET load == Lowest(bus.current_load)
           IN  Lowest(<<load[1] * bus.baudrate, load[2]>>)
                   = Lowest(<<bus.current_bytes_per_sec * bus.bits_per_byte[1] * 100,
                              bus.bits_per_byte[2]>>)

\* 115200 baud, 8 data bits, no parity, 1 stop bit, and 100 bytes within the
\* last second
LoadExample ==
    /\ arg.config = [baudrate |-> 115200, databits |-> 8, parity |-> ParityNone,
                     stopbits |-> <<1, 1>>]
    /\ JustUpdated
    /\ SumCounts(LastSecond) = 100

\* the example gives bits_per_byte 10 and a load of 100*10*100/115200
LoadExampleValue ==
    LoadExample =>
        /\ Lowest(bus.bits_per_byte) = <<10, 1>>
        /\ Lowest(bus.current_load) = Lowest(<<100 * 10 * 100, 115200>>)

LoadOf(bytes_sec) ==
    Lowest(<<bytes_sec * bus.bits_per_byte[1] * 100, bus.bits_per_byte[2] * bus.baudrate>>)

\* neither an update nor a reset nor a display is under way
Quiet == upd.at = "idle" /\ gpc = "idle"

\* C19: BusStats is written only by the reader, and a consumer never observes
\* a partially updated state: in every interleaving of the reader's update
\* with the GUI's statistics display and reset, the values the display reads
\* together are the state after some complete update or reset (so the load
\* shown is the load of the bytes per second shown), and after a reset has
\* returned the totals, peaks and current values reflect only the updates that
\* started after the reset.
C19_AsStated ==
    /\ display.complete => Lowest(display.load) = LoadOf(display.bytes_sec)
    /\ (zeroed >= 0 /\ Quiet) =>
           /\ stats.total_bytes = SumCounts((zeroed + 1)..Len(arg.updates))
           /\ zeroed = Len(arg.updates) =>
                  /\ bus.byte_history = <<>>
                  /\ bus.current_bytes_per_sec = 0
                  /\ bus.peak_bytes_per_sec = 0
                  /\ Lowest(bus.current_load) = <<0, 1>>
                  /\ Lowest(bus.peak_load) = <<0, 1>>

\* ---------------------------------------------------------------------- C20
\* C20: decode_pulses returns None for every pulse sequence of fewer than 78
\* samples, the empty one included, and such a call leaves decode_count,
\* last_command and history as they were.
C20_ShortRejected ==
    [][Len(arg') < MinPulses =>
          /\ result'.val = NoCommand
          /\ shutter'.decode_count = shutter.decode_count
          /\ shutter'.last_command = shutter.last_command
          /\ shutter'.history = shutter.history]_vars

\* a train of 77 samples, sync pulse and 38 pairs, was passed to an object
\* that had decoded a command before
C20_Witness ==
    /\ result.done
    /\ Len(arg) = MinPulses - 1
    /\ SyncIndex(arg) = 0
    /\ Len(PulseBits(DataPulses(arg, 0))) >= MinBits
    /\ result.val = NoCommand
    /\ shutter.decode_count = 1
    /\ shutter.last_command.ok

\* ---------------------------------------------------------------------- C21
\* one of the first five samples is longer than 2000
SyncInFirstFive(pulses) ==
    \E i \in 1..Min(SyncSearch, Len(pulses)) : pulses[i] > SyncFallback

C22_RoundTrip ==
    (/\ result.done
     /\ arg.channel <= 14
     /\ arg.command \in {N_STOP, N_UP, N_DOWN, N_PROG}) =>
        /\ result.val.ok
        /\ result.val.remote_id = arg.remote_id
        /\ result.val.channel_label = arg.channel
        /\ result.val.command = arg.command
        /\ result.val.checksum = 50

\* the pulses generated for 0x98461A, label 3, DOWN were decoded to label 3,
\* DOWN
C22_Witness ==
    /\ result.done
    /\ arg = [remote_id |-> 9979418, channel |-> 3, command |-> N_DOWN]
    /\ result.val.ok
    /\ result.val.remote_id = 9979418
    /\ result.val.channel = 4
    /\ result.val.channel_label = 3
    /\ result.val.command = N_DOWN
    /\ shutter.last_command = result.val

\* ---------------------------------------------------------------------- C23
\* the name the table of codes gives, CMD_<hex code> for a code it lacks
TableName(code) ==
    CASE code \in {1, 10} -> N_STOP
      [] code \in {2, 4} -> N_UP
      [] code \in {3, 5} -> N_DOWN
      [] code = 8 -> N_PROG
      [] OTHER -> <<67, 77, 68, 95, IF code < 10 THEN 48 + code ELSE 55 + code>>

\* this step is a decode_pulses that returned a command
DecodeStep == shutter'.decode_count = shutter.decode_count + 1

\* C23: the command name decode_pulses returns is the name learned for the 40
\* bits if there is one, whatever the command code; otherwise the entry of the
\* table for the codes 1, 2, 3, 4, 5, 8 and 10; otherwise CMD_<hex code>.
C23_CommandName ==
    [][DecodeStep =>
          result'.val.command =
              IF \E i \in 1..Len(shutter.learned_commands) :
                    shutter.learned_commands[i].k = result'.val.raw_bits
              THEN LET i == CHOOSE i \in 1..Len(shutter.learned_commands) :
                                shutter.learned_commands[i].k = result'.val.raw_bits
                   IN  shutter.learned_commands[i].v
              ELSE TableName(result'.val.command_code)]_vars

\* a pattern with code 3 (DOWN in the table) was learned as CUSTOM and then
\* decoded as CUSTOM
C23_Witness ==
    /\ result.done
    /\ result.val.ok
    /\ result.val.command_code = 3
    /\ result.val.command = N_CUSTOM
    /\ shutter.last_command = result.val

\* ---------------------------------------------------------------------- C24
\* the unsigned value of a string of '0' and '1', highest bit first
RECURSIVE Unsigned(_)
Unsigned(bits) ==
    IF bits = <<>> THEN 0
    ELSE (bits[1] - 48) * 2 ^ (Len(bits) - 1) + Unsigned(Tail(bits))

\* the commands held: the one returned, last_command, those of history
Held ==
    {c \in {result.val, shutter.last_command} : c.ok} \cup Range(shutter.history)

\* the bits of the pairs of data pulses of the train decoded
PairBits == PulseBits(DataPulses(arg, SyncIndex(arg)))

\* C24: every command that decode_pulses returns or stores in history or
\* last_command has raw_bits of exactly 40 characters, each '0' or '1', the
\* bits of the pairs followed by '0's if they are fewer than 40 and cut after
\* the 40th if they are more; remote_id, channel, command_code and checksum are
\* the unsigned values, highest bit first, of the bits 0..23, 24..27, 28..31
\* and 32..39.
C24_FortyBits ==
    \A c \in Held :
        /\ Len(c.raw_bits) = FrameBits
        /\ \A k \in 1..FrameBits :
              c.raw_bits[k] = IF k <= Len(PairBits) THEN PairBits[k] ELSE 48
        /\ \A k \in 1..FrameBits : c.raw_bits[k] \in {48, 49}
        /\ c.remote_id = Unsigned(SubSeq(c.raw_bits, 1, 24))
        /\ c.channel = Unsigned(SubSeq(c.raw_bits, 25, 28))
        /\ c.command_code = Unsigned(SubSeq(c.raw_bits, 29, 32))
        /\ c.checksum = Unsigned(SubSeq(c.raw_bits, 33, 40))

\* a train of 36 pairs was decoded: four '0's were added, and the command is
\* the one returned, last_command and the one entry of history
C24_Witness ==
    /\ result.done
    /\ result.val.ok
    /\ Len(PairBits) = MinBits
    /\ SubSeq(result.val.raw_bits, 33, 36) = <<49, 49, 49, 49>>
    /\ result.val.checksum = 240
    /\ result.val.remote_id = 16777215
    /\ shutter.last_command = result.val
    /\ shutter.history = <<result.val>>

\* ---------------------------------------------------------------------- C25
\* the place (from 1) of the sync pulse as the claim has it: the first of the
\* first five samples within 2200..2500, else the first sample of the whole
\* sequence above 2000, else 0
StatedSync(pulses) ==
    LET strict == {i \in 1..Min(SyncSearch, Len(pulses)) :
                      SYNC_MIN <= pulses[i] /\ pulses[i] <= SYNC_MAX}
        above == {i \in 1..Len(pulses) : pulses[i] > SyncFallback}
    IN  IF strict # {} THEN SetMin(strict)
        ELSE IF above # {} THEN SetMin(above)
        ELSE 0

\* the data pulses as the claim has them: the samples after the sync pulse,
\* without the last one if it is 5000 or more
StatedData(pulses) ==
    LET rest == SubSeq(pulses, StatedSync(pulses) + 1, Len(pulses))
    IN  IF rest # <<>> /\ rest[Len(rest)] >= END_MIN
        THEN SubSeq(rest, 1, Len(rest) - 1)
        ELSE rest

\* C25 as stated: of a sequence of 78 samples or more the sync pulse is the
\* first of the first five samples within 2200..2500, else the first sample
\* of the sequence above 2000; decode_pulses fails for lack of a sync pulse
\* only if no sample is above 2000, and the bits it returns are those of the
\* samples after the sync pulse, less a last sample of 5000 or more.
C25_AsStated ==
    (result.done /\ Len(arg) >= MinPulses) =>
        /\ result.val.ok <=>
              (StatedSync(arg) # 0 /\ Len(PulseBits(StatedData(arg))) >= MinBits)
        /\ result.val.ok =>
              \A k \in 1..FrameBits :
                  result.val.raw_bits[k] =
                      IF k <= Len(PulseBits(StatedData(arg)))
                      THEN PulseBits(StatedData(arg))[k] ELSE 48

\* ---------------------------------------------------------------------- C26
\* the bits the claim allows for the pair (p1, p2); of two equal pulses
\* outside the two classes it says nothing
StatedBit(p1, p2) ==
    IF LONG_MIN <= p1 /\ p1 <= LONG_MAX /\ SHORT_MIN <= p2 /\ p2 <= SHORT_MAX
    THEN {49}
    ELSE IF SHORT_MIN <= p1 /\ p1 <= SHORT_MAX /\ LONG_MIN <= p2 /\ p2 <= LONG_MAX
    THEN {48}
    ELSE IF p1 > p2 THEN {49}
    ELSE IF p2 > p1 THEN {48}
    ELSE {48, 49}

Data == DataPulses(arg, SyncIndex(arg))

\* C26: the data pulses are read in consecutive pairs that do not overlap,
\* a last pulse without partner is ignored, and every pair gives one bit:
\* 1 for (900..1200, 350..600), 0 for (350..600, 900..1200), otherwise the
\* bit of the longer pulse. So a sequence with a sync pulse decodes exactly
\* when it has 36 pairs or more, and bit k of the result is that of pair k.
C26_PairBits ==
    (result.done /\ Len(arg) >= MinPulses /\ SyncIndex(arg) >= 0) =>
        /\ result.val.ok <=> (Len(Data) \div 2 >= MinBits)
        /\ result.val.ok =>
              \A k \in 1..FrameBits :
                  result.val.raw_bits[k] \in
                      IF k <= Len(Data) \div 2
                      THEN StatedBit(Data[2 * k - 1], Data[2 * k])
                      ELSE {48}

\* a decoded sequence with an odd number of data pulses, with pairs of both
\* classes and with pairs of neither class among the first forty
C26_Witness ==
    /\ result.done /\ result.val.ok
    /\ Len(Data) % 2 = 1
    /\ \E k \in 1..Min(FrameBits, Len(Data) \div 2) :
          Data[2 * k - 1] = 899 /\ Data[2 * k] = 350 /\ result.val.raw_bits[k] = 49
    /\ \E k \in 1..Min(FrameBits, Len(Data) \div 2) :
          Data[2 * k - 1] = 200 /\ Data[2 * k] = 300 /\ result.val.raw_bits[k] = 48
    /\ \E k \in 1..Min(FrameBits, Len(Data) \div 2) :
          Data[2 * k - 1] = 1200 /\ Data[2 * k] = 600 /\ result.val.raw_bits[k] = 49
    /\ \E k \in 1..Min(FrameBits, Len(Data) \div 2) :
          Data[2 * k - 1] = 600 /\ Data[2 * k] = 1200 /\ result.val.raw_bits[k] = 48

\* ---------------------------------------------------------------------- C27
\* the labels learned for the remote and the internal channel (written as
\* str(internal))
LearnedLabels(self, remote_id, internal) ==
    {self.channel_mapping[i].v[j].v :
        <<i, j>> \in {<<i, j>> \in (1..Len(self.channel_mapping)) \X (1..2) :
                        /\ self.channel_mapping[i].k = remote_id
                        /\ j <= Len(self.channel_mapping[i].v)
                        /\ self.channel_mapping[i].v[j].k = IntToStr(internal)}}

\* C27: decode_pulses returns the label learned through learn_channel for the
\* remote and the internal channel of the sequence if there is one, and
\* otherwise internal - 1, or 0 for internal 0; what was learned for another
\* remote does not count.
C27_ChannelLabel ==
    [][DecodeStep =>
          /\ LearnedLabels(shutter, result'.val.remote_id, result'.val.channel) # {}
                => result'.val.channel_label \in
                      LearnedLabels(shutter, result'.val.remote_id, result'.val.channel)
          /\ LearnedLabels(shutter, result'.val.remote_id, result'.val.channel) = {}
                => result'.val.channel_label =
                      IF result'.val.channel > 0 THEN result'.val.channel - 1 ELSE 0]_vars

\* label 9 was learned for internal channel 4 of remote 0x98461A and label 3
\* for internal channel 4 of remote 1; a sequence of remote 0x98461A with
\* internal channel 4 decoded to label 9
C27_Witness ==
    /\ result.done /\ result.val.ok
    /\ result.val.remote_id = 9979418 /\ result.val.channel = 4
    /\ result.val.channel_label = 9
    /\ LearnedLabels(shutter, 9979418, 4) = {9}
    /\ LearnedLabels(shutter, 1, 4) = {3}
    /\ shutter.last_command = result.val

\* ---------------------------------------------------------------------- C28
\* with n the number of sequences decoded so far (the clock of SpecLog):
\* decode_count is n, the history holds the commands of the last min(100, n)
\* of them, oldest first, and last_command is the newest of them
HistoryKept ==
    LET n == clock
        len == Len(shutter.history)
    IN  /\ shutter.decode_count = n
        /\ len = IF n < 100 THEN n ELSE 100
        /\ \A i \in 1..len :
              /\ shutter.history[i].remote_id = n - len + i
              /\ shutter.history[i].timestamp = n - len + i - 1
        /\ n = 0 => shutter.last_command = NoCommand
        /\ n > 0 => /\ shutter.last_command = shutter.history[len]
                    /\ shutter.last_command.remote_id = n

\* C28: after any sequence of decode_pulses calls the history holds the
\* results of the last min(100, n) successful decodes in the order they were
\* made, last_command is the newest of them and decode_count is n; a call
\* that returns no command leaves history, last_command and decode_count as
\* they were.
C28_History ==
    /\ []HistoryKept
    /\ [][(result'.done /\ ~result'.val.ok) => shutter' = shutter]_vars

\* more than 100 sequences were decoded, the oldest ones have left the
\* history, and the call made last returned no command
C28_Witness ==
    /\ shutter.decode_count > HistoryMax
    /\ Len(shutter.history) = HistoryMax
    /\ shutter.history[1].remote_id = shutter.decode_count - 99
    /\ shutter.last_command.remote_id = shutter.decode_count
    /\ result.done /\ ~result.val.ok

\* ---------------------------------------------------------------------- C29
\* the command code of a name: STOP 1, UP 2, DOWN 3, PROG 8 in either case of
\* letters, STOP's code for any other name
StatedCode(name) ==
    CASE Upper(name) = N_UP -> 2
      [] Upper(name) = N_DOWN -> 3
      [] Upper(name) = N_PROG -> 8
      [] OTHER -> 1

\* bit k (from 1) of the frame 24-bit remote id, 4-bit label + 1, 4-bit
\* command code, 8-bit 0x32, highest bit of each field first
StatedFrameBit(k) ==
    CASE k <= 24 -> (arg.remote_id \div (2 ^ (24 - k))) % 2
      [] k <= 28 -> ((arg.channel + 1) \div (2 ^ (28 - k))) % 2
      [] k <= 32 -> (StatedCode(arg.command) \div (2 ^ (32 - k))) % 2
      [] OTHER -> (50 \div (2 ^ (40 - k))) % 2

\* C29 as stated: for every remote id of 24 bits, every label 0..15 and every
\* command name generate_pulses returns exactly 83 pulses: 700, 2400, then
\* for each of the 40 bits of the frame (1050, 450) for 1 or (450, 1050) for
\* 0, then 7000.
C29_AsStated ==
    result.done =>
        /\ Len(result.val) = 83
        /\ result.val[1] = 700
        /\ result.val[2] = 2400
        /\ result.val[83] = 7000
        /\ \A k \in 1..40 :
              <<result.val[2 * k + 1], result.val[2 * k + 2]>> =
                  IF StatedFrameBit(k) = 1 THEN <<1050, 450>> ELSE <<450, 1050>>

\* ---------------------------------------------------------------------- C30
\* the three mappings of an object, each as the set of its entries
Mappings(self) ==
    [remotes |-> Range(self.learned_remotes),
     commands |-> Range(self.learned_commands),
     channels |-> Range(self.channel_mapping)]

\* the mappings of an object constructed while the file is as given
Reloaded(file) == Mappings(_load_learned_data(ShutterRemoteProtocol, file))

\* the file holds the mappings of the object: an object constructed now has
\* the same three mappings and decodes every sequence to the same command
PersistedIn(self, file) ==
    /\ file.state = "json"
    /\ Reloaded(file) = Mappings(self)
    /\ \A t \in LearnTrains :
          decode_pulses(_load_learned_data(ShutterRemoteProtocol, file), t, 0).cmd =
              decode_pulses(self, t, 0).cmd

\* this step is a learn call whose write of the file ends in outcome
Learned(outcome) == \E call \in LearnCalls : CallLearn(call, outcome)

Upserted(old, new, k, v) ==
    /\ Range(new) = {e \in Range(old) : e.k # k} \cup {[k |-> k, v |-> v]}
    /\ Len(new) = Cardinality({e.k : e \in Range(new)})

\* the step from old to new is the upsert of call, stored being the command
\* name that learn_command is to store
UpsertOf(call, old, new, stored) ==
    CASE call.op = "learn_remote" ->
            /\ Upserted(old.learned_remotes, new.learned_remotes,
                        call.remote_id, call.name)
            /\ new.learned_commands = old.learned_commands
            /\ new.channel_mapping = old.channel_mapping
      [] call.op = "learn_command" ->
            /\ Upserted(old.learned_commands, new.learned_commands, call.bits, stored)
            /\ new.learned_remotes = old.learned_remotes
            /\ new.channel_mapping = old.channel_mapping
      [] call.op = "learn_channel" ->
            /\ {e \in Range(new.channel_mapping) : e.k # call.remote_id} =
                  {e \in Range(old.channel_mapping) : e.k # call.remote_id}
            /\ Len(new.channel_mapping) =
                  Cardinality({e.k : e \in Range(new.channel_mapping)})
            /\ \E e \in Range(new.channel_mapping) :
                  /\ e.k = call.remote_id
                  /\ Upserted(IF \E o \in Range(old.channel_mapping) : o.k = call.remote_id
                              THEN (CHOOSE o \in Range(old.channel_mapping) :
                                        o.k = call.remote_id).v
                              ELSE <<>>,
                              e.v, IntToStr(call.internal), call.label)
            /\ new.learned_remotes = old.learned_remotes
            /\ new.learned_commands = old.learned_commands

\* C31 as stated: learn_remote, learn_channel and learn_command set exactly
\* the entry of their key to exactly the value given, and leave every other
\* entry of that mapping and both other mappings as they were.
C31_AsStated ==
    [][\A call \in LearnCalls :
          CallLearn(call, "written") =>
              \E old \in {shutter}, new \in {shutter'} :
                  UpsertOf(call, old, new, call.name)]_vars

\* C31, amended: learn_remote and learn_channel set exactly the entry of
\* their key to exactly the value given, learn_command sets the entry of the
\* bit pattern to the name given in upper case; every other entry of that
\* mapping and both other mappings stay as they were.
C31_Upsert ==
    [][\A call \in LearnCalls :
          CallLearn(call, "written") =>
              \E old \in {shutter}, new \in {shutter'} :
                  UpsertOf(call, old, new, Upper(call.name))]_vars

\* two remotes have a name, the second one learned after the first
C31_Witness ==
    /\ Len(shutter.learned_remotes) = 2
    /\ shutter.learned_remotes[1].k = 9979418
    /\ shutter.learned_remotes[2] = [k |-> 1, v |-> N_CUSTOM]
    /\ config_file.state = "json"

\* ---------------------------------------------------------------------- C32
\* the file cannot be read or parsed: it is not JSON, or one of its remote
\* keys is no hexadecimal number
Unparsable(file) ==
    \/ file.state = "partial"
    \/ file.state = "json" /\ \E e \in Range(file.remotes) \cup Range(file.channels) :
                                 ~PyInt(e.k, 16).ok

\* C32 as stated: an object constructed while the file cannot be read or
\* parsed starts with all three mappings empty, none of them loaded in part;
\* a learn call whose write of the file fails returns with the mapping in
\* memory updated.
C32_AsStated ==
    [][/\ (NewProtocol /\ Unparsable(config_file)) =>
              \E new \in {shutter'} : Mappings(new) = Mappings(ShutterRemoteProtocol)
       /\ \A call \in LearnCalls :
              (CallLearn(call, "refused") \/ CallLearn(call, "broken")) =>
                  \E old \in {shutter}, new \in {shutter'} :
                      UpsertOf(call, old, new, Upper(call.name))]_vars

\* ---------------------------------------------------------------------- C33
\* a queue changes only by records put at its end or taken from its head
Fifo(old, new) ==
    \/ Len(new) >= Len(old) /\ SubSeq(new, 1, Len(old)) = old
    \/ Len(new) <= Len(old) /\ From(old, Len(old) - Len(new)) = new

\* C33 as stated: every record the reader puts on rx_queue or on
\* rflink_msg_queue is taken from the queue by the polling GUI task, in the
\* order it was put, as long as that task keeps polling: with an input that
\* ends, each queue that holds a record is empty again later.
C33_AsStated ==
    /\ [][Fifo(rx_queue, rx_queue') /\ Fifo(rflink_msg_queue, rflink_msg_queue')]_vars
    /\ (rx_queue # <<>>) ~> (rx_queue = <<>>)
    /\ (rflink_msg_queue # <<>>) ~> (rflink_msg_queue = <<>>)

\* ---------------------------------------------------------------------- C34
\* C34 as stated: when a reader's read of the serial source fails, exactly
\* one error record is put on rx_queue and the reader leaves its loop; from
\* then on it makes no read and no framing step, only the shutdown flush,
\* and ends.  Every failure of the read is surfaced by such a record.
C34_AsStated ==
    [][\A t \in Threads :
          /\ (pc[t] = "read" /\ pc'[t] \notin {"read", "frame"}) =>
                /\ pc'[t] = "flush"
                /\ rx_queue' = Append(rx_queue, ErrorRecord)
          /\ (pc[t] = "flush" /\ pc'[t] # "flush") =>
                /\ pc'[t] = "done"
                /\ \E old \in {rx_queue}, new \in {rx_queue'} :
                      \A i \in (Len(old) + 1)..Len(new) : new[i].kind # "error"
          /\ pc[t] = "done" => pc'[t] = "done"]_vars

\* ---------------------------------------------------------------------- C35
\* C35 as stated: whatever the GUI task sets while the reader runs (mode,
\* delimiter, timeout) and whatever bytes arrive, no step of framing ends
\* the reader through an error: a reader ends only at "while self.running",
\* at the test of the port, or at the read.
C35_AsStated ==
    [][\A t \in Threads :
          (pc'[t] \in {"crashed", "flush"} /\ pc[t] # pc'[t]) =>
              pc[t] \in {"loop", "check", "read"}]_vars

\* ---------------------------------------------------------------------- C36
\* the text without its spaces is a hex string: not empty, of even length,
\* hex digits only
IsHexString(h) ==
    /\ h # <<>>
    /\ Len(h) % 2 = 0
    /\ \A i \in 1..Len(h) : h[i] \in (48..57) \cup (65..70) \cup (97..102)

\* the bytes a hex string stands for
HexBytes(h) ==
    [k \in 1..(Len(h) \div 2) |->
        16 * DigitVal(h[2 * k - 1]) + DigitVal(h[2 * k])]

\* C36 as stated: set_delimiter accepts exactly the texts that, without their
\* spaces, are non-empty hex strings of even length: it sets the delimiter to
\* their bytes and returns true; for every other text it returns false and
\* leaves the delimiter as it was.  So the delimiter always has one byte or
\* more, and each cut of the reader's delimiter loop shortens the buffer.
C36_AsStated ==
    /\ [][\E h \in {SelectSeq(arg', LAMBDA c : c # SP)} :
          \E old \in {delimiter}, new \in {delimiter'}, returned \in {result'.val} :
             IF IsHexString(h)
             THEN returned = TRUE /\ new = HexBytes(h)
             ELSE returned = FALSE /\ new = old]_vars
    /\ [](Len(delimiter) >= 1)
    /\ [](CutIndex(0, delimiter) >= 1)

\* ------------------------------------------------------------------- C37
\* the received bytes carried by the first n records of rx_queue, in put order
RECURSIVE Carried(_)
Carried(n) == IF n = 0 THEN <<>> ELSE Carried(n - 1) \o rx_queue[n].bytes

\* what reader t has read and not yet put: the bytes of the read it is
\* handling and its buffer; nothing once it has ended
Unframed(t) ==
    IF t = 0 \/ ~Alive(t) THEN <<>>
    ELSE buffer[t] \o (IF pc[t] = "frame" THEN data[t] ELSE <<>>)

BytesRead == Len(received)
FramesPut == Cardinality({i \in 1..Len(rx_queue) : rx_queue[i].kind = "frame"})

\* C38 as stated: whenever the reader stands between two reads or has ended,
\* total_bytes is the sum of the sizes of all reads performed and
\* total_frames is the number of frame records the reader has put on
\* rx_queue, complete frames and the incomplete shutdown-flush frame alike.
C38_AsStated ==
    (thread # 0 /\ stats.set /\ (Settled(thread) \/ Ended(thread))) =>
        /\ stats.total_bytes = BytesRead
        /\ stats.total_frames = FramesPut

\* ------------------------------------------------------------------- C39
\* reader t takes a step in which it reads from the port or puts a record
ReadsOrEmits(t) ==
    /\ pc'[t] # pc[t]
    /\ \/ pc[t] = "read" /\ pc'[t] = "frame"
       \/ rx_queue' # rx_queue

\* C39 as stated: no reader is started while the sniffer is running, and for
\* every sequence of start() and stop() calls, a stop() whose join timed out
\* included, a reader started by an earlier start() neither reads from the
\* port nor puts a record while the reader of a later start() is alive.
C39_AsStated ==
    /\ [][running => \A t \in Threads : pc[t] = "idle" => pc'[t] = "idle"]_vars
    /\ [][\A t \in Threads :
             (thread # 0 /\ t # thread /\ Alive(thread)) => ~ReadsOrEmits(t)]_vars

\* ------------------------------------------------------------------- C40
\* the text the statement gives for a raw value: -(raw & 0x7FFF)/10 with bit
\* 15 set, raw/10 otherwise, with one decimal and the unit
StatedCelsius(raw) ==
    FormatTenths(IF HasSignBit(raw) THEN 0 - Magnitude(raw) ELSE raw) \o <<176, 67>>

\* C40 as stated: for each of TEMP, WINCHL and WINTMP and every raw value in
\* 0..0xFFFF format_value returns the signed tenths of the raw value in
\* degrees Celsius, and the call changes neither the raw value it was given
\* nor the device registry.
C40_AsStated ==
    /\ [](result.done => result.val = StatedCelsius(arg.raw_value.i))
    /\ [][arg' = arg /\ rflink_devices' = rflink_devices]_vars

====
